---- MODULE Spec2Model ----
(***************************************************************************)
(* A model of vllm_plugin_manager: the register() entry point, the         *)
(* PluginManager reconciliation loop, the PluginRegistry store, the        *)
(* PackageInstaller and the EntryPointDiscovery snapshot/diff.             *)
(*                                                                         *)
(* Python values: None is the string None below; a truthiness test         *)
(* (`if x:`) is Truthy(x). A dict is a function whose DOMAIN is its key    *)
(* set, so a registry record with no "error" key is a function without     *)
(* "error" in its DOMAIN. Strings are concatenated with \o.                *)
(***************************************************************************)
EXTENDS Integers, Sequences, FiniteSets, TLC

\* ------------------------------------------------------------- bounds
\* Longest desired-state document (entries of the `plugins` sequence).
MaxPlugins == 2
\* install_plugins() passes made through the library API per behaviour.
MaxPasses == 2
\* register() calls per behaviour.
MaxRegisterCalls == 2
\* Mutating calls the store processes make in all.
MaxOps == 2
\* Longest sys.meta_path.
MaxFinders == 3

\* ------------------------------------------------------------- values
None == "<None>"

Truthy(x) == x # None /\ x # ""

\* `a or b` on strings / None.
Or(a, b) == IF Truthy(a) THEN a ELSE b

\* A YAML scalar that is not a string (path: 123); pathlib.Path() raises
\* TypeError for it.
IntValue == "<int 123>"

\* str(x), also what an f-string makes of x.
str(x) == IF x = None THEN "None" ELSE IF x = IntValue THEN "123" ELSE x

EmptyMap == <<>>

SetKey(d, k, v) == (k :> v) @@ d

DelKey(d, k) == [x \in DOMAIN d \ {k} |-> d[x]]

RECURSIVE SeqToSet(_)
SeqToSet(s) == IF s = <<>> THEN {} ELSE {Head(s)} \cup SeqToSet(Tail(s))

Contains(s, x) == \E j \in 1..Len(s) : s[j] = x

\* ------------------------------------------------------------- PluginStatus
PENDING == "pending"
INSTALLING == "installing"
INSTALLED == "installed"
FAILED == "failed"

PluginStatus == {PENDING, INSTALLING, INSTALLED, FAILED}

\* ------------------------------------------------------------- PluginSpec
\* PluginSpec.plugin_id
plugin_id(spec) ==
    IF spec.source = "pypi" /\ Truthy(spec.package) THEN spec.package
    ELSE spec.name

\* get_install_spec with the `if self.ref:` test left out.
get_install_spec_at_always(spec) ==
    IF spec.source = "git" THEN
        [err |-> FALSE,
         ref |-> ("git+" \o str(spec.url)) \o ("@" \o str(spec.ref))
                 \o (IF Truthy(spec.subdirectory)
                     THEN "#subdirectory=" \o str(spec.subdirectory) ELSE "")]
    ELSE [err |-> spec.source \notin {"pypi", "local"}, ref |-> ""]

\* PluginSpec.get_install_spec; a raised ConfigError is [err |-> TRUE].
get_install_spec(spec) ==
    IF spec.source = "pypi" THEN
        [err |-> FALSE,
         ref |-> IF Truthy(spec.version) THEN str(spec.package) \o str(spec.version)
                 ELSE Or(spec.package, spec.name)]
    ELSE IF spec.source = "git" THEN
        [err |-> FALSE,
         ref |-> ("git+" \o str(spec.url))
                 \o (IF Truthy(spec.ref) THEN "@" \o str(spec.ref) ELSE "")
                 \o (IF Truthy(spec.subdirectory)
                     THEN "#subdirectory=" \o str(spec.subdirectory) ELSE "")]
    ELSE IF spec.source = "local" THEN
        [err |-> FALSE, ref |-> IF Truthy(spec.path) THEN str(spec.path) ELSE ""]
    ELSE [err |-> TRUE, ref |-> "Unknown source type: " \o spec.source]

\* validate with the test of `path` left out.
validate_path_unchecked(spec) ==
    IF ~Truthy(spec.name) THEN FALSE
    ELSE IF ~Truthy(spec.source) THEN FALSE
    ELSE IF spec.source = "pypi" THEN Truthy(spec.package)
    ELSE IF spec.source = "git" THEN Truthy(spec.url)
    ELSE spec.source = "local"

\* PluginSpec.validate: TRUE when it returns, FALSE when it raises ConfigError.
validate(spec) ==
    IF ~Truthy(spec.name) THEN FALSE
    ELSE IF ~Truthy(spec.source) THEN FALSE
    ELSE IF spec.source = "pypi" THEN Truthy(spec.package)
    ELSE IF spec.source = "git" THEN Truthy(spec.url)
    ELSE IF spec.source = "local" THEN Truthy(spec.path)
    ELSE FALSE

\* One element of the document's `plugins` sequence: a mapping (isdict) whose
\* absent keys already carry the defaults plugin_data.get(key, default) gives,
\* or something that is not a mapping.
Entry(isdict, name, source, enabled, package, version, url, ref, subdirectory, path) ==
    [isdict |-> isdict, name |-> name, source |-> source, enabled |-> enabled,
     package |-> package, version |-> version, url |-> url, ref |-> ref,
     subdirectory |-> subdirectory, path |-> path, editable |-> TRUE]

\* The PluginSpec(...) construction of PluginConfig.from_file.
MakeSpec(e) == [k \in DOMAIN e \ {"isdict"} |-> e[k]]

\* PluginConfig.from_file on a parsed document: [err, plugins]. err is the
\* ConfigError raised for a YAML error, for an entry that is no mapping, or by
\* validate(); the plugin list exists only when nothing was raised.
RECURSIVE from_file_entries(_)
from_file_entries(entries) ==
    IF entries = <<>> THEN [err |-> FALSE, plugins |-> <<>>]
    ELSE LET e == Head(entries) IN
         IF ~e.isdict THEN [err |-> TRUE, plugins |-> <<>>]
         ELSE IF ~validate(MakeSpec(e)) THEN [err |-> TRUE, plugins |-> <<>>]
         ELSE LET rest == from_file_entries(Tail(entries)) IN
              IF rest.err THEN rest
              ELSE [err |-> FALSE, plugins |-> <<MakeSpec(e)>> \o rest.plugins]

\* from_file with the isinstance test kept and spec.validate() left out.
from_file_unvalidated(doc) ==
    IF doc.kind = "yamlerror" \/ \E k \in DOMAIN doc.plugins : ~doc.plugins[k].isdict
    THEN [err |-> TRUE, plugins |-> <<>>]
    ELSE [err |-> FALSE, plugins |-> [k \in DOMAIN doc.plugins |-> MakeSpec(doc.plugins[k])]]

from_file(doc) ==
    IF doc.kind = "yamlerror" THEN [err |-> TRUE, plugins |-> <<>>]
    ELSE from_file_entries(doc.plugins)

\* PluginConfig.get_enabled_plugins
get_enabled_plugins_all(plugins) == plugins

get_enabled_plugins(plugins) == SelectSeq(plugins, LAMBDA p : p.enabled)

\* ------------------------------------------------------------- PluginRegistry
\* The registry file: absent, not parsable as JSON ("corrupt"), JSON that is not
\* an object with a "plugins" key ("invalid"), or the document json.dump wrote.
AbsentFile == [kind |-> "absent", version |-> None, plugins |-> EmptyMap]
CorruptFile == [kind |-> "corrupt", version |-> None, plugins |-> EmptyMap]
InvalidFile == [kind |-> "invalid", version |-> None, plugins |-> EmptyMap]

\* Bytes that the text-mode read cannot decode: f.read() raises
\* UnicodeDecodeError, which is a ValueError but not a json.JSONDecodeError.
UndecodableFile == [kind |-> "undecodable", version |-> None, plugins |-> EmptyMap]

\* {"plugins": null}: an object with a "plugins" key whose value is no mapping;
\* _load returns it as it is.
NoMapFile == [kind |-> "nomap", version |-> None, plugins |-> EmptyMap]

REGISTRY_VERSION == "1.0"

\* json.dump of {"version": ..., "plugins": ...} in PluginRegistry._save.
json_dump(plugins) == [kind |-> "json", version |-> REGISTRY_VERSION, plugins |-> plugins]

\* PluginRegistry._save: the file after the write; an unwritable registry
\* directory makes open(..., "w") raise and leaves the file as it was.
save_raises(writable) == ~writable

save_file(plugins, file, writable) ==
    IF save_raises(writable) THEN file ELSE json_dump(plugins)

\* PluginRegistry._load with _create_empty_registry: [raised, plugins, file],
\* for every file but NoMapFile, whose "plugins" value is no mapping.
load_registry(file, writable) ==
    IF file.kind = "json" THEN [raised |-> FALSE, plugins |-> file.plugins, file |-> file]
    ELSE IF file.kind = "undecodable"
    THEN [raised |-> TRUE, plugins |-> EmptyMap, file |-> file]
    ELSE [raised |-> save_raises(writable), plugins |-> EmptyMap,
          file |-> save_file(EmptyMap, file, writable)]

\* PluginRegistry.register_plugin (the in-memory part; entry_points None is <<>>).
register_plugin_no_version(plugins, id, name, source, package, version, status, entry_points, error) ==
    LET plugin_data == [name |-> name, source |-> source, package |-> package,
                        version |-> None, status |-> status,
                        entry_points |-> entry_points]
    IN  SetKey(plugins, id, plugin_data)

register_plugin(plugins, id, name, source, package, version, status, entry_points, error) ==
    LET base == [name |-> name, source |-> source, package |-> package,
                 version |-> version, status |-> status,
                 entry_points |-> entry_points]
        plugin_data == IF Truthy(error) THEN SetKey(base, "error", error) ELSE base
    IN  SetKey(plugins, id, plugin_data)

\* PluginRegistry.get_plugin: the record or None.
get_plugin(plugins, id) == IF id \in DOMAIN plugins THEN plugins[id] ELSE None

\* PluginRegistry.update_status (the in-memory part).
update_status_creates(plugins, id, status, error) ==
    IF id \notin DOMAIN plugins THEN SetKey(plugins, id, [status |-> status])
    ELSE [plugins EXCEPT ![id].status = status]

update_status_keep_error(plugins, id, status, error) ==
    IF id \notin DOMAIN plugins THEN plugins
    ELSE LET r1 == [plugins[id] EXCEPT !.status = status]
         IN  [plugins EXCEPT ![id] = IF Truthy(error) THEN SetKey(r1, "error", error) ELSE r1]

update_status(plugins, id, status, error) ==
    IF id \notin DOMAIN plugins THEN plugins
    ELSE LET r1 == [plugins[id] EXCEPT !.status = status]
             r2 == IF Truthy(error) THEN SetKey(r1, "error", error)
                   ELSE IF "error" \in DOMAIN r1 /\ status = INSTALLED
                        THEN DelKey(r1, "error")
                        ELSE r1
         IN  [plugins EXCEPT ![id] = r2]

update_entry_points_resets_status(plugins, id, entry_points) ==
    IF id \notin DOMAIN plugins THEN plugins
    ELSE [plugins EXCEPT ![id].entry_points = entry_points, ![id].status = PENDING]

\* PluginRegistry.update_entry_points (the in-memory part).
update_entry_points(plugins, id, entry_points) ==
    IF id \notin DOMAIN plugins THEN plugins
    ELSE [plugins EXCEPT ![id].entry_points = entry_points]

\* PluginRegistry.remove_plugin (the in-memory part).
remove_plugin(plugins, id) == DelKey(plugins, id)

\* Whether the call reaches self._save(): the update_* calls and remove_plugin
\* return before it for an unknown id.
saves_on_update_never(plugins, id) == FALSE

saves_on_update(plugins, id) == id \in DOMAIN plugins

\* PluginRegistry.is_installed
is_installed_never(plugins, id) == FALSE

is_installed(plugins, id) ==
    IF id \notin DOMAIN plugins THEN FALSE
    ELSE plugins[id].status = INSTALLED

\* ------------------------------------------------------------- PackageInstaller
DEFAULT_TIMEOUT == 300

\* What subprocess.run can do with one pip command.
\* out and err are the child's stdout and stderr; for an exception other than
\* TimeoutExpired, out is the exception's text.
Exit0 == [kind |-> "exit", rc |-> 0, out |-> "Successfully installed", err |-> ""]
Exit0Warn == [kind |-> "exit", rc |-> 0, out |-> "Successfully installed", err |-> "WARNING: old pip"]
Exit1 == [kind |-> "exit", rc |-> 1, out |-> "", err |-> "network error"]
Exit1Both == [kind |-> "exit", rc |-> 1, out |-> "Collecting x", err |-> "ERROR: no match"]
Exit2 == [kind |-> "exit", rc |-> 2, out |-> "", err |-> "usage"]
Exit1Silent == [kind |-> "exit", rc |-> 1, out |-> "", err |-> ""]
TimedOut == [kind |-> "timeout", rc |-> 0, out |-> "", err |-> ""]
OsError == [kind |-> "oserror", rc |-> 0, out |-> "no pip", err |-> ""]

SubprocessOutcomes ==
    {Exit0, Exit0Warn, Exit1, Exit1Both, Exit2, Exit1Silent, TimedOut, OsError}

\* _run_pip whose timeout message does not give the duration.
run_pip_of_plain_timeout(timeout, args, oc) ==
    IF oc.kind = "exit" THEN <<oc.rc = 0, oc.out \o oc.err>>
    ELSE IF oc.kind = "timeout" THEN <<FALSE, "Error running pip: timed out">>
         ELSE <<FALSE, "Error running pip: " \o oc.out>>

\* The timeout argument of PackageInstaller(...): left out (None) or a number.
NoTimeout == [given |-> FALSE, seconds |-> 0]

\* PackageInstaller.__init__: self.timeout = timeout or self.DEFAULT_TIMEOUT
instance_timeout(timeout) ==
    IF ~timeout.given \/ timeout.seconds = 0 THEN DEFAULT_TIMEOUT ELSE timeout.seconds

\* PackageInstaller._run_pip of an installer constructed with `timeout`:
\* <<success, output>>.
run_pip_of(timeout, args, oc) ==
    IF oc.kind = "exit" THEN <<oc.rc = 0, oc.out \o oc.err>>
    ELSE IF oc.kind = "timeout"
         THEN <<FALSE, "Command timed out after "
                       \o ToString(instance_timeout(timeout)) \o " seconds">>
         ELSE <<FALSE, "Error running pip: " \o oc.out>>

\* _run_pip of the installer PluginManager constructs: PackageInstaller().
run_pip(args, oc) == run_pip_of(NoTimeout, args, oc)

PathTypeError == "expected str, bytes or os.PathLike object, not int"

\* str(Path(p)): pathlib drops a trailing slash.
PathStr(p) == IF p = "p/" THEN "p" ELSE p

Returned(pair, args) ==
    [raised |-> FALSE, success |-> pair[1], message |-> pair[2], args |-> args]

Raised(msg) == [raised |-> TRUE, success |-> FALSE, message |-> msg, args |-> <<>>]

\* The class of the exception a call let out: every `raise` of
\* install_from_spec is an InstallerError; Path() raises TypeError.
exception_class(res) ==
    IF ~res.raised THEN None
    ELSE IF res.message = PathTypeError THEN "TypeError" ELSE "InstallerError"

\* PackageInstaller.install_pypi
install_pypi(package, version, upgrade, oc) ==
    LET package_spec == IF Truthy(version) THEN str(package) \o str(version) ELSE package
        args == <<"install">> \o (IF upgrade THEN <<"--upgrade">> ELSE <<>>)
                \o <<package_spec>>
    IN  Returned(run_pip(args, oc), args)

\* install_git with the `if ref:` branch left out.
install_git_without_ref(url, ref, subdirectory, editable, oc) ==
    LET git_url == ("git+" \o url)
                   \o (IF Truthy(subdirectory)
                       THEN "#subdirectory=" \o subdirectory ELSE "")
        args == <<"install">> \o (IF editable THEN <<"-e">> ELSE <<>>) \o <<git_url>>
    IN  Returned(run_pip(args, oc), args)

\* PackageInstaller.install_git
install_git(url, ref, subdirectory, editable, oc) ==
    LET git_url == ("git+" \o url)
                   \o (IF Truthy(ref) THEN "@" \o ref ELSE "")
                   \o (IF Truthy(subdirectory)
                       THEN "#subdirectory=" \o subdirectory ELSE "")
        args == <<"install">> \o (IF editable THEN <<"-e">> ELSE <<>>) \o <<git_url>>
    IN  Returned(run_pip(args, oc), args)

\* install_local with the `if editable:` test left out.
install_local_always_editable(path, editable, oc) ==
    LET args == <<"install", "-e", path>>
    IN  Returned(run_pip(args, oc), args)

\* PackageInstaller.install_local
install_local(path, editable, oc) ==
    LET args == <<"install">> \o (IF editable THEN <<"-e">> ELSE <<>>) \o <<path>>
    IN  Returned(run_pip(args, oc), args)

\* install_from_spec reporting a missing field or an unknown source as a failed
\* install instead of raising.
install_from_spec_never_raises(spec, oc) ==
    IF spec.source = "pypi" THEN
        install_pypi(Or(spec.package, spec.name), spec.version, FALSE, oc)
    ELSE IF spec.source = "git" /\ Truthy(spec.url) THEN
        install_git(spec.url, spec.ref, spec.subdirectory, FALSE, oc)
    ELSE IF spec.source = "local" /\ Truthy(spec.path) /\ spec.path # IntValue THEN
        install_local(PathStr(spec.path), spec.editable, oc)
    ELSE Returned(<<FALSE, "cannot install">>, <<>>)

\* PackageInstaller.install_from_spec: what it returns, or the exception it
\* lets out (InstallerError, or the TypeError of Path(spec.path)).
install_from_spec(spec, oc) ==
    IF spec.source = "pypi" THEN
        install_pypi(Or(spec.package, spec.name), spec.version, FALSE, oc)
    ELSE IF spec.source = "git" THEN
        IF ~Truthy(spec.url) THEN Raised("Git plugin '" \o spec.name \o "' missing URL")
        ELSE install_git(spec.url, spec.ref, spec.subdirectory, FALSE, oc)
    ELSE IF spec.source = "local" THEN
        IF ~Truthy(spec.path) THEN Raised("Local plugin '" \o spec.name \o "' missing path")
        ELSE IF spec.path = IntValue THEN Raised(PathTypeError)
        ELSE install_local(PathStr(spec.path), spec.editable, oc)
    ELSE Raised("Unknown source type: " \o spec.source)

\* PackageInstaller.get_installed_version on the environment's distributions
\* (name -> version): the version, or None for PackageNotFoundError.
get_installed_version(dists, package) ==
    IF package \in DOMAIN dists THEN dists[package] ELSE None

\* The distribution a successful `pip install <reference>` adds.
DistOf(ref) ==
    CASE ref = "pa>=1.0" -> [name |-> "pa", version |-> "1.2"]
      [] ref = "git+u@main" -> [name |-> "gd", version |-> "2.0"]
      [] ref = "p" -> [name |-> "c", version |-> "0.1"]
      [] OTHER -> [name |-> ref, version |-> "1.0"]

\* The environment after the pip command `args` ended with outcome oc.
PipEffect(dists, args, oc) ==
    IF oc.kind = "exit" /\ oc.rc = 0 /\ args # <<>> /\ args[1] = "install"
    THEN LET d == DistOf(args[Len(args)]) IN SetKey(dists, d.name, d.version)
    ELSE dists

\* ------------------------------------------------------------- EntryPointDiscovery
VLLM_ENTRY_POINT_GROUPS ==
    <<"vllm.general_plugins", "vllm.logits_processors",
      "vllm.stat_logger_plugins", "vllm.platform_plugins">>

Groups == SeqToSet(VLLM_ENTRY_POINT_GROUPS)

EP(group, name, value, dist) ==
    [group |-> group, name |-> name, value |-> value, dist |-> dist]

\* The entry points the distributions of the environment declare, in the
\* order importlib.metadata.entry_points() lists them.
AllEntryPoints ==
    << EP("vllm.platform_plugins", "plat", "base.m:p", "base"),
       EP("vllm.general_plugins", "e1", "pa.m:f", "pa"),
       EP("vllm.general_plugins", "e1", "pa.old:f", "pa"),
       EP("vllm.general_plugins", "e2", "gd.m:h", "gd"),
       EP("vllm.logits_processors", "lp", "c.m:g", "c"),
       EP("vllm.logits_processors", "e1", "pa.m:f", "x"),
       EP("vllm.general_plugins", "e1", "pa.m:f", "y") >>

\* EntryPointDiscovery.get_vllm_entry_points, on the distributions the
\* process's metadata index currently shows.
get_vllm_entry_points(view) ==
    [g \in Groups |->
        SelectSeq(AllEntryPoints, LAMBDA ep : ep.group = g /\ ep.dist \in view)]

\* EntryPointDiscovery.entry_point_to_dict
entry_point_to_dict(ep) == [name |-> ep.name, value |-> ep.value, group |-> ep.group]

MapSeq(s, F(_)) == [j \in 1..Len(s) |-> F(s[j])]

\* EntryPointDiscovery.take_snapshot: the new self._snapshot.
take_snapshot(view) ==
    [g \in Groups |-> MapSeq(get_vllm_entry_points(view)[g], entry_point_to_dict)]

\* self._snapshot before any take_snapshot().
NoSnapshot == [taken |-> FALSE, groups |-> [g \in Groups |-> <<>>]]

Snapshot(view) == [taken |-> TRUE, groups |-> take_snapshot(view)]

\* EntryPointDiscovery.get_new_entry_points
get_new_entry_points_no_guard(snapshot, view) ==
    LET current == get_vllm_entry_points(view) IN
    [g \in Groups |->
        LET snapshot_set == {<<d.name, d.value>> : d \in SeqToSet(snapshot.groups[g])}
        IN  SelectSeq(current[g], LAMBDA ep : <<ep.name, ep.value>> \notin snapshot_set)]

get_new_entry_points_any_group(snapshot, view) ==
    IF ~snapshot.taken THEN [g \in Groups |-> <<>>]
    ELSE LET current == get_vllm_entry_points(view)
             snapshot_set == UNION {{<<d.name, d.value>> : d \in SeqToSet(snapshot.groups[h])}
                                    : h \in Groups}
         IN  [g \in Groups |->
                SelectSeq(current[g], LAMBDA ep : <<ep.name, ep.value>> \notin snapshot_set)]

get_new_entry_points(snapshot, view) ==
    IF ~snapshot.taken THEN [g \in Groups |-> <<>>]
    ELSE LET current == get_vllm_entry_points(view) IN
         [g \in Groups |->
            LET snapshot_set == {<<d.name, d.value>> : d \in SeqToSet(snapshot.groups[g])}
            IN  SelectSeq(current[g], LAMBDA ep : <<ep.name, ep.value>> \notin snapshot_set)]

\* invalidate_importlib_cache: the metadata index forgets its memoized view and
\* shows the distributions that are installed now.
invalidate_cache_keeps_view(view, dists) == view

invalidate_cache(view, dists) == DOMAIN dists

\* ------------------------------------------------------------- PluginManager
\* One iteration of the inner loop of PluginManager._update_entry_points.
\* The attribution with a record made for an owner the registry does not know.
attribute_entry_point_creates(plugins, group, ep) ==
    IF ep.dist = None THEN plugins
    ELSE IF ep.dist \in DOMAIN plugins THEN
        update_entry_points(plugins, ep.dist,
            Append(plugins[ep.dist].entry_points, (group \o ":") \o ep.name))
    ELSE register_plugin(plugins, ep.dist, ep.dist, "pypi", ep.dist, None, INSTALLED,
                         <<(group \o ":") \o ep.name>>, None)

\* The attribution with the `if ep_str not in current_eps` test left out.
attribute_entry_point_always_appends(plugins, group, ep) ==
    IF ep.dist # None /\ ep.dist \in DOMAIN plugins THEN
        update_entry_points(plugins, ep.dist,
            Append(plugins[ep.dist].entry_points, (group \o ":") \o ep.name))
    ELSE plugins

\* One step of the loops of PluginManager._update_entry_points.
attribute_entry_point(plugins, group, ep) ==
    IF ep.dist # None /\ ep.dist \in DOMAIN plugins THEN
        LET current_eps == plugins[ep.dist].entry_points
            ep_str == (group \o ":") \o ep.name
        IN  IF ~Contains(current_eps, ep_str)
            THEN update_entry_points(plugins, ep.dist, Append(current_eps, ep_str))
            ELSE plugins
    ELSE plugins

RECURSIVE attribute_group(_, _, _)
attribute_group(plugins, group, eps) ==
    IF eps = <<>> THEN plugins
    ELSE attribute_group(attribute_entry_point(plugins, group, Head(eps)), group, Tail(eps))

RECURSIVE attribute_groups(_, _, _)
attribute_groups(plugins, groups, new_eps) ==
    IF groups = <<>> THEN plugins
    ELSE attribute_groups(attribute_group(plugins, Head(groups), new_eps[Head(groups)]),
                          Tail(groups), new_eps)

\* PluginManager._update_entry_points: the registry after the attribution.
update_entry_points_from(plugins, new_eps) ==
    attribute_groups(plugins, VLLM_ENTRY_POINT_GROUPS, new_eps)

\* The register-as-pending and update-to-installing calls of the loop.
mark_pending(plugins, spec) ==
    register_plugin(plugins, plugin_id(spec), spec.name, spec.source, spec.package,
                    None, PENDING, <<>>, None)

mark_installing_as_installed(plugins, spec) ==
    update_status(plugins, plugin_id(spec), INSTALLED, None)

mark_installing(plugins, spec) ==
    update_status(plugins, plugin_id(spec), INSTALLING, None)

\* The body of the try block of the loop for one spec, given what the
\* installer did (res) and the environment after it: [plugins, result, installed].
record_outcome_flags_failure(plugins, spec, res, dists) ==
    IF ~res.raised /\ res.success THEN
        LET version == get_installed_version(dists, Or(spec.package, spec.name)) IN
        [plugins |-> register_plugin(plugins, plugin_id(spec), spec.name, spec.source,
                                     spec.package, version, INSTALLED, <<>>, None),
         result |-> <<TRUE, "Installed " \o Or(version, "successfully")>>,
         installed |-> TRUE]
    ELSE
        [plugins |-> update_status(plugins, plugin_id(spec), FAILED, res.message),
         result |-> <<FALSE, res.message>>,
         installed |-> TRUE]

record_outcome_leaves_installing(plugins, spec, res, dists) ==
    IF ~res.raised /\ res.success THEN
        LET version == get_installed_version(dists, Or(spec.package, spec.name)) IN
        [plugins |-> register_plugin(plugins, plugin_id(spec), spec.name, spec.source,
                                     spec.package, version, INSTALLED, <<>>, None),
         result |-> <<TRUE, "Installed " \o Or(version, "successfully")>>,
         installed |-> TRUE]
    ELSE
        [plugins |-> plugins,
         result |-> <<FALSE, res.message>>,
         installed |-> FALSE]

record_outcome(plugins, spec, res, dists) ==
    IF res.raised THEN
        [plugins |-> update_status(plugins, plugin_id(spec), FAILED, res.message),
         result |-> <<FALSE, res.message>>,
         installed |-> FALSE]
    ELSE IF res.success THEN
        LET version == get_installed_version(dists, Or(spec.package, spec.name)) IN
        [plugins |-> register_plugin(plugins, plugin_id(spec), spec.name, spec.source,
                                     spec.package, version, INSTALLED, <<>>, None),
         result |-> <<TRUE, "Installed " \o Or(version, "successfully")>>,
         installed |-> TRUE]
    ELSE
        [plugins |-> update_status(plugins, plugin_id(spec), FAILED, res.message),
         result |-> <<FALSE, res.message>>,
         installed |-> FALSE]

\* ------------------------------------------------------------- register()
\* is_main_process, on multiprocessing.current_process().name.
is_main_process_always(name) == TRUE

is_main_process(name) == name = "MainProcess"

\* get_config_path going on to the default location when the file the
\* variable names does not exist.
get_config_path_falls_through(loc) ==
    IF Truthy(loc.env_path) /\ loc.env_exists THEN loc.env_path
    ELSE IF loc.default_exists THEN "~/.config/vllm/plugins.yaml"
    ELSE None

\* get_config_path: the path found, or None.
get_config_path(loc) ==
    IF Truthy(loc.env_path) THEN
        IF loc.env_exists THEN loc.env_path ELSE None
    ELSE IF loc.default_exists THEN "~/.config/vllm/plugins.yaml"
    ELSE None

\* The one-shot guard: the value of _registered once a call has passed the
\* `if _registered: return` test.
registered_after_unset(was) == was

registered_after(was) == TRUE

\* The statements of register() the try block encloses: an exception raised
\* in one of them is caught by `except Exception` and logged.
register_catches_install_only(stage) == stage = "install_plugins"

register_catches(stage) == stage \in {"get_config_path", "PluginManager", "install_plugins"}

\* `for spec in enabled_plugins`: the position the loop takes after the body
\* has run for position i.
loop_next_same(i) == i

loop_next(i) == i + 1

\* The statements of the loop body the inner try block encloses.
loop_catches_nothing(stage) == FALSE

loop_catches(stage) == stage \in {"install_from_spec", "get_installed_version", "register_plugin"}

\* PluginManager.__init__: [raised, config, plugins, file]. The configuration is
\* loaded first; the registry is constructed only when that did not raise.
new_manager(doc, file, writable) ==
    LET cfg == from_file(doc) IN
    IF cfg.err THEN [raised |-> TRUE, config |-> <<>>, plugins |-> EmptyMap, file |-> file]
    ELSE LET reg == load_registry(file, writable) IN
         [raised |-> reg.raised, config |-> cfg.plugins, plugins |-> reg.plugins,
          file |-> reg.file]

\* ------------------------------------------------------------- state
VARIABLES
    \* the environment
    process_name,   \* multiprocessing.current_process().name
    config_loc,     \* VLLM_PLUGIN_CONFIG and which config files exist
    config_doc,     \* the desired-state document
    pip,            \* what pip does for the k-th enabled plugin
    writable,       \* whether the registry directory can be written
    file,           \* registry.json
    dists,          \* installed distributions: name -> version
    view,           \* distributions the process's metadata index shows
    \* the process
    registered,     \* _registered
    pc,             \* "idle", or the position inside install_plugins()
    caller,         \* who runs the manager: "none", "register", "direct"
    has_manager,    \* a PluginManager exists
    config,         \* manager.config.plugins
    registry,       \* manager.registry._data["plugins"]
    snapshot,       \* manager.discovery._snapshot
    idx,            \* position of the loop in the enabled specs
    results,        \* results of the running / last pass
    installed_any,
    \* history
    file0,          \* registry.json at the start
    n_calls,        \* register() calls made
    n_lookups,      \* get_config_path() calls made by register()
    n_managers,     \* PluginManager constructions begun by register()
    n_reg_passes,   \* install_plugins() passes begun by register()
    n_passes,       \* install_plugins() passes begun through the API
    log,            \* installer invocations of the running / last pass
    returned,       \* how the last pass ended: "none", "ok", "raised"
    escaped,        \* an exception left register()
    swallowed,      \* register() caught and logged an exception
    reg_at_start,   \* the registry when the running / last pass began
    invalidated,    \* the running / last pass called discovery.invalidate_cache()
    \* processes that use PluginRegistry on the same directory
    lock,           \* the holder of registry.lock, 0 when free
    s_pc,           \* each process's position in PluginRegistry's code
    s_data,         \* each store's self._data["plugins"]
    s_call,         \* the last mutating call each process made
    s_done,         \* mutating calls each process has made
    n_ops,          \* mutating calls made in all
    s_fresh,        \* the store was constructed after every call made so far
    m_pass,         \* each execution's own manager: its position and its locals
    \* invalidate_importlib_cache() step by step
    meta_path,      \* sys.meta_path: what each finder's invalidate_caches does
    adapters,       \* importlib.metadata._adapters._entries.cache_clear
    dist_listing,   \* list(importlib.metadata.distributions())
    c_pc,           \* position in invalidate_importlib_cache()
    c_i,            \* position of its loop over sys.meta_path
    c_ran,          \* the sub-steps it has attempted
    \* EntryPointDiscovery used on its own
    d_diff,         \* the last get_new_entry_points() call and what it returned
    d_snap_view,    \* the distributions visible at the last take_snapshot()
    \* the stateless operations called on their own
    u_in,           \* the arguments and the environment of such calls
    u_call          \* the last such call: its name and its outcome

store_vars == <<lock, s_pc, s_data, s_call, s_done, n_ops, s_fresh, m_pass>>

cache_vars == <<meta_path, adapters, dist_listing, c_pc, c_i, c_ran>>

disc_vars == <<d_diff, d_snap_view>>

env_vars == <<process_name, config_loc, config_doc, pip, writable, file0, store_vars,
              cache_vars, disc_vars, u_in, u_call>>

mgr_vars == <<has_manager, caller, config, registry, snapshot>>

pass_vars == <<pc, idx, results, installed_any, log, returned, reg_at_start, invalidated>>

reg_hist == <<n_calls, n_lookups, n_managers, n_reg_passes, escaped, swallowed>>

vars == <<process_name, config_loc, config_doc, pip, writable, file, dists, view,
          registered, pc, caller, has_manager, config, registry, snapshot, idx,
          results, installed_any, file0, n_calls, n_lookups, n_managers,
          n_reg_passes, n_passes, log, returned, escaped, swallowed, reg_at_start, invalidated,
          lock, s_pc, s_data, s_call, s_done, n_ops, s_fresh, m_pass,
          meta_path, adapters, dist_listing, c_pc, c_i, c_ran, d_diff, d_snap_view,
          u_in, u_call>>

\* ------------------------------------------------------------- inputs
E_pypi == Entry(TRUE, "a", "pypi", TRUE, "pa", ">=1.0", None, None, None, None)
E_git == Entry(TRUE, "pa", "git", TRUE, None, None, "u", "main", None, None)
E_local == Entry(TRUE, "c", "local", TRUE, None, None, None, None, None, "p/")
E_badpath == Entry(TRUE, "d", "local", TRUE, None, None, None, None, None, IntValue)
E_off == Entry(TRUE, "a", "pypi", FALSE, "pa", ">=1.0", None, None, None, None)
E_nopkg == Entry(TRUE, "e", "pypi", TRUE, None, None, None, None, None, None)
E_off_nourl == Entry(TRUE, "f", "git", FALSE, None, None, None, None, None, None)
E_scalar == Entry(FALSE, "", "", TRUE, None, None, None, None, None, None)

Entries == {E_pypi, E_git, E_local, E_badpath, E_off, E_nopkg, E_off_nourl, E_scalar}

SeqsUpTo(S, n) == UNION {[1..k -> S] : k \in 0..n}

Docs == {[kind |-> "yaml", plugins |-> es] : es \in SeqsUpTo(Entries, MaxPlugins)}
        \cup {[kind |-> "yamlerror", plugins |-> <<>>]}

NoConfigLoc == [env_path |-> None, env_exists |-> FALSE, default_exists |-> FALSE]

EnvConfigLoc == [env_path |-> "/etc/plugins.yaml", env_exists |-> TRUE, default_exists |-> FALSE]

\* The process and the config location it sees.
Hosts ==
    {<<"MainProcess", EnvConfigLoc>>, <<"MainProcess", NoConfigLoc>>,
     <<"Worker-1", EnvConfigLoc>>}

\* A record an earlier run left in the registry.
OldRecord ==
    [name |-> "a", source |-> "pypi", package |-> "pa", version |-> None,
     status |-> FAILED, entry_points |-> <<>>, error |-> "old error"]

\* A record of a plugin the desired state no longer declares.
GoneRecord ==
    [name |-> "gd", source |-> "pypi", package |-> "gd", version |-> "1.9",
     status |-> INSTALLED, entry_points |-> <<>>]

OldFile == json_dump(SetKey(SetKey(EmptyMap, "pa", OldRecord), "gd", GoneRecord))

FileInits ==
    {<<AbsentFile, TRUE>>, <<CorruptFile, TRUE>>, <<OldFile, TRUE>>,
     <<AbsentFile, FALSE>>, <<OldFile, FALSE>>}

PassOutcomes == {Exit0, Exit1, Exit1Silent}

\* The k-th enabled plugin of the document reaches a pip command.
ReachesPip(doc, k) ==
    LET cfg == from_file(doc) IN
    /\ ~cfg.err
    /\ k <= Len(get_enabled_plugins(cfg.plugins))
    /\ ~install_from_spec(get_enabled_plugins(cfg.plugins)[k], Exit0).raised

InitialDists == SetKey(EmptyMap, "base", "1.0")

Enabled == get_enabled_plugins(config)

\* ------------------------------------------------------------- Init
StoreProcs == {1, 2}

NoCall == [op |-> "none", id |-> "", status |-> None, error |-> None, held |-> FALSE]

\* An execution of the reconciliation by process `proc`: where it is (at), the
\* loop position, the snapshot and installed_any of its pass, the registry it
\* began the pass with, and (in the record of the process) the distributions
\* the process's metadata index shows.
PassAt(proc, at) ==
    [proc |-> proc, at |-> at, idx |-> 0, snap |-> NoSnapshot, any |-> FALSE,
     start |-> EmptyMap, view |-> DOMAIN InitialDists]

NoPasses == [p \in StoreProcs |-> PassAt(p, "none")]

\* No process has constructed a PluginRegistry of its own.
InitStores ==
    /\ lock = 0
    /\ s_pc = [p \in StoreProcs |-> "none"]
    /\ s_data = [p \in StoreProcs |-> EmptyMap]
    /\ s_call = [p \in StoreProcs |-> NoCall]
    /\ s_done = [p \in StoreProcs |-> 0]
    /\ n_ops = 0
    /\ s_fresh = [p \in StoreProcs |-> FALSE]
    /\ m_pass = NoPasses

\* invalidate_importlib_cache() is not running; nothing in the interpreter
\* makes its sub-steps fail.
InitCache ==
    /\ meta_path = <<"caching", "plain">>
    /\ adapters = "ok"
    /\ dist_listing = "ok"
    /\ c_pc = "idle"
    /\ c_i = 0
    /\ c_ran = <<>>

NoDiff ==
    [made |-> FALSE, taken |-> FALSE, groups |-> [g \in Groups |-> <<>>],
     view |-> {}, snap_view |-> {}]

NoUnitCall == [op |-> "none", out |-> None]

DefaultLoc == [env_path |-> None, env_exists |-> FALSE, default_exists |-> FALSE]

\* No stateless operation is going to be called on its own.
NoUnitInput ==
    [spec |-> MakeSpec(E_pypi), oc |-> Exit0, timeout |-> NoTimeout, loc |-> DefaultLoc]


\* The interpreter before register() or the API has been used.
InitProcess ==
    /\ u_call = NoUnitCall
    /\ d_diff = NoDiff
    /\ d_snap_view = {}
    /\ dists = InitialDists
    /\ view = DOMAIN InitialDists
    /\ registered = FALSE
    /\ pc = "idle"
    /\ caller = "none"
    /\ has_manager = FALSE
    /\ config = <<>>
    /\ registry = EmptyMap
    /\ snapshot = NoSnapshot
    /\ idx = 0
    /\ results = EmptyMap
    /\ installed_any = FALSE
    /\ n_calls = 0
    /\ n_lookups = 0
    /\ n_managers = 0
    /\ n_reg_passes = 0
    /\ n_passes = 0
    /\ log = <<>>
    /\ returned = "none"
    /\ escaped = FALSE
    /\ swallowed = FALSE
    /\ reg_at_start = EmptyMap
    /\ invalidated = FALSE

InitWith(hosts) ==
    /\ \E pl \in hosts : process_name = pl[1] /\ config_loc = pl[2]
    /\ config_doc \in Docs
    /\ pip \in [1..MaxPlugins -> PassOutcomes]
    /\ \A k \in 1..MaxPlugins : ~ReachesPip(config_doc, k) => pip[k] = Exit0
    /\ \E fw \in FileInits : file = fw[1] /\ writable = fw[2]
    /\ file0 = file
    /\ InitProcess
    /\ u_in = NoUnitInput
    /\ InitStores
    /\ InitCache

\* The host uses the library API (PluginManager) from its main process.
Init == InitWith({<<"MainProcess", EnvConfigLoc>>})

\* The host calls register(), in the main process or in a worker.
InitRegister == InitWith(Hosts)

\* ------------------------------------------------------------- install_plugins()
\* The start of install_plugins(): the enabled specs are filtered; with none
\* the empty result is returned at once, else the snapshot is taken and the
\* loop begins.
BeginPass(cfg, reg) ==
    /\ log' = <<>>
    /\ results' = EmptyMap
    /\ reg_at_start' = reg
    /\ invalidated' = FALSE
    /\ IF get_enabled_plugins(cfg) = <<>>
       THEN /\ pc' = "idle"
            /\ returned' = "ok"
            /\ UNCHANGED <<snapshot, idx, installed_any>>
       ELSE /\ pc' = "loop"
            /\ returned' = "none"
            /\ snapshot' = Snapshot(view)
            /\ idx' = 1
            /\ installed_any' = FALSE

\* The end of a pass for its caller: register() drops its manager; an
\* exception that left install_plugins() is caught by register() or not.
EndPass(raised) ==
    /\ pc' = "idle"
    /\ returned' = IF raised THEN "raised" ELSE "ok"
    /\ IF caller = "register"
       THEN /\ has_manager' = FALSE
            /\ caller' = "none"
            /\ escaped' = (escaped \/ (raised /\ ~register_catches("install_plugins")))
            /\ swallowed' = (swallowed \/ (raised /\ register_catches("install_plugins")))
       ELSE UNCHANGED <<has_manager, caller, escaped, swallowed>>

\* The loop reaches a spec the registry marks installed.
LoopSkip ==
    /\ pc = "loop"
    /\ idx <= Len(Enabled)
    /\ is_installed(registry, plugin_id(Enabled[idx]))
    /\ results' = SetKey(results, plugin_id(Enabled[idx]), <<TRUE, "Already installed">>)
    /\ idx' = loop_next(idx)
    /\ UNCHANGED <<env_vars, file, dists, view, registered, mgr_vars, pc,
                   installed_any, log, returned, reg_at_start, invalidated, reg_hist, n_passes>>

\* The loop reaches any other spec: it is registered as pending, with a save.
\* A save that raises ends the pass: the call is outside the try block.
LoopPending ==
    /\ pc = "loop"
    /\ idx <= Len(Enabled)
    /\ ~is_installed(registry, plugin_id(Enabled[idx]))
    /\ registry' = mark_pending(registry, Enabled[idx])
    /\ IF save_raises(writable)
       THEN /\ EndPass(TRUE)
            /\ UNCHANGED <<file, config, snapshot>>
       ELSE /\ file' = save_file(registry', file, writable)
            /\ pc' = "pending"
            /\ UNCHANGED <<returned, has_manager, caller, config, snapshot,
                           escaped, swallowed>>
    /\ UNCHANGED <<env_vars, dists, view, registered, idx, results, installed_any,
                   log, reg_at_start, invalidated, n_calls, n_lookups, n_managers,
                   n_reg_passes, n_passes>>

\* The pending record is moved to installing, with a save (the directory was
\* writable a moment ago).
LoopInstalling ==
    /\ pc = "pending"
    /\ registry' = mark_installing(registry, Enabled[idx])
    /\ file' = save_file(registry', file, writable)
    /\ pc' = "install"
    /\ UNCHANGED <<env_vars, dists, view, registered, idx, results, installed_any,
                   log, reg_at_start, invalidated, reg_hist, n_passes, returned, has_manager,
                   caller, config, snapshot>>

\* The installer is invoked for the spec and its outcome recorded.
LoopInstall ==
    /\ pc = "install"
    /\ LET spec == Enabled[idx]
           res == install_from_spec(spec, pip[idx])
           env == PipEffect(dists, res.args, pip[idx])
           out == record_outcome(registry, spec, res, env)
       IN  /\ dists' = env
           /\ log' = Append(log, [pos |-> idx, spec |-> spec, res |-> res, dists |-> env])
           /\ IF res.raised /\ ~loop_catches("install_from_spec")
              THEN /\ EndPass(TRUE)
                   /\ UNCHANGED <<registry, file, results, installed_any, idx,
                                  config, snapshot>>
              ELSE /\ registry' = out.plugins
                   /\ file' = save_file(registry', file, writable)
                   /\ results' = SetKey(results, plugin_id(spec), out.result)
                   /\ installed_any' = (installed_any \/ out.installed)
                   /\ idx' = loop_next(idx)
                   /\ pc' = "loop"
                   /\ UNCHANGED <<returned, has_manager, caller, config, snapshot,
                                  escaped, swallowed>>
    /\ UNCHANGED <<env_vars, view, registered, reg_at_start, invalidated, n_calls, n_lookups,
                   n_managers, n_reg_passes, n_passes>>

\* After the loop, with a new install: self.discovery.invalidate_cache().
PassInvalidate ==
    /\ pc = "loop"
    /\ idx > Len(Enabled)
    /\ installed_any
    /\ invalidated' = TRUE
    /\ view' = invalidate_cache(view, dists)
    /\ pc' = "diff"
    /\ UNCHANGED <<env_vars, file, dists, registered, mgr_vars, idx, results,
                   installed_any, log, returned, reg_at_start, reg_hist, n_passes>>

\* self._update_entry_points(): the diff against the snapshot is computed and
\* the new entry points are attributed; then the results are returned.
PassAttribute ==
    /\ pc = "diff"
    /\ registry' = update_entry_points_from(registry, get_new_entry_points(snapshot, view))
    /\ file' = IF registry' # registry
               THEN save_file(registry', file, writable) ELSE file
    /\ EndPass(FALSE)
    /\ UNCHANGED <<env_vars, dists, view, registered, config, snapshot, idx, results,
                   installed_any, log, reg_at_start, invalidated, n_calls, n_lookups,
                   n_managers, n_reg_passes, n_passes>>

\* After the loop, without a new install: the results are returned.
PassReturn ==
    /\ pc = "loop"
    /\ idx > Len(Enabled)
    /\ ~installed_any
    /\ EndPass(FALSE)
    /\ UNCHANGED <<env_vars, file, dists, view, registered, config, registry, snapshot,
                   idx, results, installed_any, log, reg_at_start, invalidated,
                   n_calls, n_lookups, n_managers, n_reg_passes, n_passes>>

\* ------------------------------------------------------------- register()
\* register() is called while _registered is set: it returns at once.
RegisterAgain ==
    /\ pc = "idle"
    /\ n_calls < MaxRegisterCalls
    /\ registered
    /\ n_calls' = n_calls + 1
    /\ UNCHANGED <<env_vars, file, dists, view, registered, mgr_vars, pass_vars,
                   n_lookups, n_managers, n_reg_passes, n_passes, escaped, swallowed>>

\* register() in a process that is not the main process.
RegisterWorker ==
    /\ pc = "idle"
    /\ n_calls < MaxRegisterCalls
    /\ ~registered
    /\ registered' = registered_after(registered)
    /\ ~is_main_process(process_name)
    /\ n_calls' = n_calls + 1
    /\ UNCHANGED <<env_vars, file, dists, view, mgr_vars, pass_vars,
                   n_lookups, n_managers, n_reg_passes, n_passes, escaped, swallowed>>

\* register() in the main process finds no config file.
RegisterNoConfig ==
    /\ pc = "idle"
    /\ n_calls < MaxRegisterCalls
    /\ ~registered
    /\ registered' = registered_after(registered)
    /\ is_main_process(process_name)
    /\ get_config_path(config_loc) = None
    /\ n_calls' = n_calls + 1
    /\ n_lookups' = n_lookups + 1
    /\ UNCHANGED <<env_vars, file, dists, view, mgr_vars, pass_vars,
                   n_managers, n_reg_passes, n_passes, escaped, swallowed>>

\* register() in the main process: the construction of the PluginManager
\* raises (ConfigError of the document, or the registry cannot be written).
RegisterSetupError ==
    /\ pc = "idle"
    /\ n_calls < MaxRegisterCalls
    /\ ~registered
    /\ registered' = registered_after(registered)
    /\ is_main_process(process_name)
    /\ get_config_path(config_loc) # None
    /\ LET m == new_manager(config_doc, file, writable) IN
       /\ m.raised
       /\ file' = m.file
    /\ n_calls' = n_calls + 1
    /\ n_lookups' = n_lookups + 1
    /\ n_managers' = n_managers + 1
    /\ escaped' = (escaped \/ ~register_catches("PluginManager"))
    /\ swallowed' = (swallowed \/ register_catches("PluginManager"))
    /\ UNCHANGED <<env_vars, dists, view, mgr_vars, pass_vars, n_reg_passes, n_passes>>

\* register() in the main process constructs the manager and begins
\* install_plugins().
RegisterStart ==
    /\ pc = "idle"
    /\ n_calls < MaxRegisterCalls
    /\ ~has_manager
    /\ ~registered
    /\ registered' = registered_after(registered)
    /\ is_main_process(process_name)
    /\ get_config_path(config_loc) # None
    /\ LET m == new_manager(config_doc, file, writable) IN
       /\ ~m.raised
       /\ file' = m.file
       /\ config' = m.config
       /\ registry' = m.plugins
       /\ has_manager' = (get_enabled_plugins(m.config) # <<>>)
       /\ caller' = IF get_enabled_plugins(m.config) # <<>> THEN "register" ELSE "none"
       /\ BeginPass(m.config, m.plugins)
    /\ n_calls' = n_calls + 1
    /\ n_lookups' = n_lookups + 1
    /\ n_managers' = n_managers + 1
    /\ n_reg_passes' = n_reg_passes + 1
    /\ UNCHANGED <<env_vars, dists, view, n_passes, escaped, swallowed>>

\* ------------------------------------------------------------- the library API
\* PluginManager(config_path, registry_dir) called by the host's own code; an
\* exception goes to that caller.
Construct ==
    /\ pc = "idle"
    /\ ~has_manager
    /\ n_passes < MaxPasses
    /\ LET m == new_manager(config_doc, file, writable) IN
       /\ file' = m.file
       /\ IF m.raised
          THEN UNCHANGED mgr_vars
          ELSE /\ has_manager' = TRUE
               /\ caller' = "direct"
               /\ config' = m.config
               /\ registry' = m.plugins
               /\ snapshot' = NoSnapshot
    /\ UNCHANGED <<env_vars, dists, view, registered, pass_vars, reg_hist, n_passes>>

\* The host drops its manager.
Discard ==
    /\ pc = "idle"
    /\ has_manager
    /\ caller = "direct"
    /\ has_manager' = FALSE
    /\ caller' = "none"
    /\ config' = <<>>
    /\ registry' = EmptyMap
    /\ snapshot' = NoSnapshot
    /\ idx' = 0
    /\ results' = EmptyMap
    /\ installed_any' = FALSE
    /\ log' = <<>>
    /\ returned' = "none"
    /\ reg_at_start' = EmptyMap
    /\ invalidated' = FALSE
    /\ UNCHANGED <<env_vars, file, dists, view, registered, pc, reg_hist, n_passes>>

\* manager.install_plugins() called by the host's own code.
InstallPlugins ==
    /\ pc = "idle"
    /\ has_manager
    /\ caller = "direct"
    /\ n_passes < MaxPasses
    /\ n_passes' = n_passes + 1
    /\ BeginPass(config, registry)
    /\ UNCHANGED <<env_vars, file, dists, view, registered, has_manager, caller,
                   config, registry, reg_hist>>

\* The PluginManager API: construction and install_plugins() passes.
Next ==
    \/ Construct
    \/ Discard
    \/ InstallPlugins
    \/ LoopSkip
    \/ LoopPending
    \/ LoopInstalling
    \/ LoopInstall
    \/ PassInvalidate
    \/ PassAttribute
    \/ PassReturn

Spec == Init /\ [][Next]_vars

\* The register() entry point and the pass it runs.
NextRegister ==
    \/ RegisterAgain
    \/ RegisterWorker
    \/ RegisterNoConfig
    \/ RegisterSetupError
    \/ RegisterStart
    \/ LoopSkip
    \/ LoopPending
    \/ LoopInstalling
    \/ LoopInstall
    \/ PassInvalidate
    \/ PassAttribute
    \/ PassReturn

SpecRegister == InitRegister /\ [][NextRegister]_vars

\* ------------------------------------------------------------- PluginRegistry in several processes
\* Every process constructs its own PluginRegistry on the one registry
\* directory and calls it; registry.lock is taken where the code takes it.
StoreFiles == {AbsentFile, CorruptFile, InvalidFile, UndecodableFile, NoMapFile, OldFile}

StoreIds == {"pa", "c"}

\* <<status, error>> arguments of register_plugin and of update_status.
RegisterArgs == {<<PENDING, None>>, <<INSTALLED, None>>, <<FAILED, "boom">>, <<FAILED, None>>}

UpdateArgs == {<<INSTALLING, None>>, <<INSTALLED, None>>, <<FAILED, "boom">>, <<PENDING, "boom">>}

\* open(registry_file, "w") has truncated the file and json.dump has not
\* written yet: the file exists and is not parsable.
TruncatedFile == CorruptFile

lock_free_ignored(holder) == TRUE

\* `with self._lock:` is entered when no process holds registry.lock.
lock_free(holder) == holder = 0

\* The process holds a constructed store.
Built(p) == s_pc[p] \in {"ready", "save", "saving"}

MakeCall(op, id, status, error) ==
    [op |-> op, id |-> id, status |-> status, error |-> error,
     held |-> \A q \in StoreProcs : Built(q)]

\* The in-memory effect of a mutating call.
ApplyCall(c, plugins) ==
    IF c.op = "register_plugin"
    THEN register_plugin(plugins, c.id, c.id, "pypi", c.id, None, c.status, <<>>, c.error)
    ELSE IF c.op = "update_status" THEN update_status(plugins, c.id, c.status, c.error)
    ELSE IF c.op = "update_entry_points"
         THEN update_entry_points(plugins, c.id, <<"vllm.general_plugins:e1">>)
    ELSE IF c.op = "remove_plugin" THEN remove_plugin(plugins, c.id)
    ELSE plugins

\* A mutating call changes self._data and goes on to self._save(), or returns
\* at once when it finds nothing to change.
BeginCall(p, c, saves) ==
    /\ s_pc[p] = "ready"
    /\ n_ops < MaxOps
    /\ s_data' = [s_data EXCEPT ![p] = ApplyCall(c, s_data[p])]
    /\ s_pc' = [s_pc EXCEPT ![p] = IF saves THEN "save" ELSE "ready"]
    /\ s_call' = [s_call EXCEPT ![p] = c]
    /\ s_done' = [s_done EXCEPT ![p] = @ + 1]
    /\ n_ops' = n_ops + 1
    /\ s_fresh' = [q \in StoreProcs |-> FALSE]
    /\ UNCHANGED <<lock, file>>

\* PluginRegistry() up to the exists() test of _load, made without the lock.
StoreConstruct(p) ==
    /\ s_pc[p] = "none"
    /\ s_pc' = [s_pc EXCEPT ![p] = IF file.kind = "absent" THEN "create" ELSE "load"]
    /\ s_data' = [s_data EXCEPT ![p] = EmptyMap]
    /\ s_fresh' = [s_fresh EXCEPT ![p] = \A q \in StoreProcs \ {p} : s_pc[q] = "ready"]
    /\ UNCHANGED <<lock, file, s_call, s_done, n_ops>>

\* _load reads the file under the lock. A file without the expected structure
\* is replaced before the lock is released (FileLock is re-entrant); for a file
\* that does not parse, the lock is released and _create_empty_registry called.
\* UnicodeDecodeError is not caught and leaves __init__; an object whose
\* "plugins" is no mapping is returned as the store's data.
StoreLoad(p) ==
    /\ s_pc[p] = "load"
    /\ lock_free(lock)
    /\ file.kind # "absent"
    /\ IF file.kind = "undecodable"
       THEN /\ s_pc' = [s_pc EXCEPT ![p] = "ctor_raised"]
            /\ UNCHANGED <<lock, file, s_data>>
       ELSE IF file.kind = "nomap"
       THEN /\ s_pc' = [s_pc EXCEPT ![p] = "nomap"]
            /\ UNCHANGED <<lock, file, s_data>>
       ELSE IF file.kind = "json"
       THEN /\ s_data' = [s_data EXCEPT ![p] = file.plugins]
            /\ s_pc' = [s_pc EXCEPT ![p] = "ready"]
            /\ UNCHANGED <<lock, file>>
       ELSE IF file.kind = "invalid"
       THEN /\ s_data' = [s_data EXCEPT ![p] = EmptyMap]
            /\ lock' = p
            /\ file' = TruncatedFile
            /\ s_pc' = [s_pc EXCEPT ![p] = "creating"]
       ELSE /\ s_data' = [s_data EXCEPT ![p] = EmptyMap]
            /\ s_pc' = [s_pc EXCEPT ![p] = "create"]
            /\ UNCHANGED <<lock, file>>
    /\ UNCHANGED <<s_call, s_done, n_ops, s_fresh>>

\* _save: the lock is acquired and the file opened for writing.
StoreOpen(p) ==
    /\ s_pc[p] \in {"create", "save"}
    /\ lock_free(lock)
    /\ lock' = p
    /\ file' = TruncatedFile
    /\ s_pc' = [s_pc EXCEPT ![p] = IF s_pc[p] = "create" THEN "creating" ELSE "saving"]
    /\ UNCHANGED <<s_data, s_call, s_done, n_ops, s_fresh>>

\* _save: json.dump of the store's own data, then the lock is released.
StoreDump(p) ==
    /\ s_pc[p] \in {"creating", "saving"}
    /\ lock = p
    /\ file' = json_dump(s_data[p])
    /\ lock' = 0
    /\ s_pc' = [s_pc EXCEPT ![p] = "ready"]
    /\ UNCHANGED <<s_data, s_call, s_done, n_ops, s_fresh>>

\* A mutating call on a store whose "plugins" is None: the membership test or
\* the item assignment raises TypeError before anything is written.
StoreCallNoMap(p) ==
    /\ s_pc[p] = "nomap"
    /\ n_ops < MaxOps
    /\ \E op \in {"register_plugin", "update_status", "update_entry_points", "remove_plugin"} :
           s_call' = [s_call EXCEPT ![p] = MakeCall(op, "pa", INSTALLED, None)]
    /\ s_pc' = [s_pc EXCEPT ![p] = "call_raised"]
    /\ s_done' = [s_done EXCEPT ![p] = @ + 1]
    /\ n_ops' = n_ops + 1
    /\ s_fresh' = [q \in StoreProcs |-> FALSE]
    /\ UNCHANGED <<lock, file, s_data>>

StoreRegisterPlugin(p) ==
    \E id \in StoreIds, a \in RegisterArgs :
        BeginCall(p, MakeCall("register_plugin", id, a[1], a[2]), TRUE)

StoreUpdateStatus(p) ==
    \E id \in StoreIds, a \in UpdateArgs :
        BeginCall(p, MakeCall("update_status", id, a[1], a[2]),
                  saves_on_update(s_data[p], id))

StoreUpdateEntryPoints(p) ==
    \E id \in StoreIds :
        BeginCall(p, MakeCall("update_entry_points", id, None, None),
                  saves_on_update(s_data[p], id))

StoreRemovePlugin(p) ==
    \E id \in StoreIds :
        BeginCall(p, MakeCall("remove_plugin", id, None, None),
                  saves_on_update(s_data[p], id))

proc_vars == <<process_name, config_loc, config_doc, pip, writable, file0, dists,
               view, registered, n_passes, mgr_vars, pass_vars, reg_hist, cache_vars,
               disc_vars, u_in, u_call, m_pass>>

InitStore ==
    /\ process_name = "MainProcess"
    /\ config_loc = EnvConfigLoc
    /\ config_doc = [kind |-> "yaml", plugins |-> <<>>]
    /\ pip = [k \in 1..MaxPlugins |-> Exit0]
    /\ writable = TRUE
    /\ file \in StoreFiles
    /\ file0 = file
    /\ InitProcess
    /\ u_in = NoUnitInput
    /\ InitStores
    /\ InitCache

NextStore ==
    \/ \E p \in StoreProcs : StoreConstruct(p) /\ UNCHANGED proc_vars
    \/ \E p \in StoreProcs : StoreLoad(p) /\ UNCHANGED proc_vars
    \/ \E p \in StoreProcs : StoreOpen(p) /\ UNCHANGED proc_vars
    \/ \E p \in StoreProcs : StoreDump(p) /\ UNCHANGED proc_vars
    \/ \E p \in StoreProcs : StoreCallNoMap(p) /\ UNCHANGED proc_vars
    \/ \E p \in StoreProcs : StoreRegisterPlugin(p) /\ UNCHANGED proc_vars
    \/ \E p \in StoreProcs : StoreUpdateStatus(p) /\ UNCHANGED proc_vars
    \/ \E p \in StoreProcs : StoreUpdateEntryPoints(p) /\ UNCHANGED proc_vars
    \/ \E p \in StoreProcs : StoreRemovePlugin(p) /\ UNCHANGED proc_vars

SpecStore == InitStore /\ [][NextStore]_vars

\* ------------------------------------------------------------- invalidate_importlib_cache()
\* A finder of sys.meta_path has no invalidate_caches ("plain"), has one that
\* works ("caching") or has one that raises ("raises").
FinderKinds == {"plain", "caching", "raises"}

MetaPaths == SeqsUpTo(FinderKinds, MaxFinders)

\* importlib.invalidate_caches() of the standard library calls
\* invalidate_caches() of every finder of sys.meta_path that has one, without
\* catching anything: it raises when one of them raises.
importlib_invalidate_caches_raises(path) == \E k \in DOMAIN path : path[k] = "raises"

cache_env == <<meta_path, adapters, dist_listing>>

other_vars == <<process_name, config_loc, config_doc, pip, writable, file0, file,
                dists, view, registered, n_passes, mgr_vars, pass_vars, reg_hist,
                store_vars, disc_vars, u_in, u_call>>

\* invalidate_importlib_cache() is called.
CacheBegin ==
    /\ c_pc = "idle"
    /\ c_pc' = "adapters"
    /\ c_ran' = <<>>
    /\ UNCHANGED <<c_i, cache_env, other_vars>>

\* The adapter cache is cleared when the interpreter has one; an exception of
\* cache_clear() is passed over.
CacheClearAdapters ==
    /\ c_pc = "adapters"
    /\ c_ran' = IF adapters = "absent" THEN c_ran ELSE Append(c_ran, "adapters")
    /\ c_pc' = "finders"
    /\ c_i' = 1
    /\ UNCHANGED <<cache_env, other_vars>>

\* One turn of the loop over sys.meta_path: invalidate_caches() of the finder
\* is called when it has one; an exception is passed over.
CacheFinder ==
    /\ c_pc = "finders"
    /\ c_i <= Len(meta_path)
    /\ c_ran' = IF meta_path[c_i] = "plain" THEN c_ran ELSE Append(c_ran, "finder")
    /\ c_i' = c_i + 1
    /\ UNCHANGED <<c_pc, cache_env, other_vars>>

\* importlib.invalidate_caches(), outside any try block.
CacheImporter ==
    /\ c_pc = "finders"
    /\ c_i > Len(meta_path)
    /\ c_ran' = Append(c_ran, "importer")
    /\ c_pc' = IF importlib_invalidate_caches_raises(meta_path)
               THEN "raised" ELSE "distributions"
    /\ UNCHANGED <<c_i, cache_env, other_vars>>

\* The distributions are listed again; an exception is passed over. The
\* function returns.
CacheDistributions ==
    /\ c_pc = "distributions"
    /\ c_ran' = Append(c_ran, "distributions")
    /\ c_pc' = "done"
    /\ UNCHANGED <<c_i, cache_env, other_vars>>

InitCacheAny ==
    /\ process_name = "MainProcess"
    /\ config_loc = EnvConfigLoc
    /\ config_doc = [kind |-> "yaml", plugins |-> <<>>]
    /\ pip = [k \in 1..MaxPlugins |-> Exit0]
    /\ writable = TRUE
    /\ file = AbsentFile
    /\ file0 = file
    /\ InitProcess
    /\ u_in = NoUnitInput
    /\ InitStores
    /\ meta_path \in MetaPaths
    /\ adapters \in {"absent", "ok", "raises"}
    /\ dist_listing \in {"ok", "raises"}
    /\ c_pc = "idle"
    /\ c_i = 0
    /\ c_ran = <<>>

NextCache ==
    \/ CacheBegin
    \/ CacheClearAdapters
    \/ CacheFinder
    \/ CacheImporter
    \/ CacheDistributions

SpecCache == InitCacheAny /\ [][NextCache]_vars

\* ------------------------------------------------------------- EntryPointDiscovery
\* One EntryPointDiscovery instance, used directly, while distributions come
\* and go in the environment.
DiscDists == {"pa", "c", "x", "y"}

disc_rest == <<process_name, config_loc, config_doc, pip, writable, file0, file,
               dists, registered, n_passes, has_manager, caller, config, registry,
               pass_vars, reg_hist, store_vars, cache_vars, u_in, u_call>>

\* A distribution is installed or removed; the process sees the change.
DiscChange ==
    /\ \E d \in DiscDists : view' = IF d \in view THEN view \ {d} ELSE view \cup {d}
    /\ UNCHANGED <<snapshot, disc_vars, disc_rest>>

\* discovery.take_snapshot()
DiscTakeSnapshot ==
    /\ snapshot' = Snapshot(view)
    /\ d_snap_view' = view
    /\ UNCHANGED <<view, d_diff, disc_rest>>

\* discovery.get_new_entry_points()
DiscGetNewEntryPoints ==
    /\ d_diff' = [made |-> TRUE, taken |-> snapshot.taken,
                  groups |-> get_new_entry_points(snapshot, view),
                  view |-> view, snap_view |-> d_snap_view]
    /\ UNCHANGED <<view, snapshot, d_snap_view, disc_rest>>

InitDiscovery ==
    /\ process_name = "MainProcess"
    /\ config_loc = EnvConfigLoc
    /\ config_doc = [kind |-> "yaml", plugins |-> <<>>]
    /\ pip = [k \in 1..MaxPlugins |-> Exit0]
    /\ writable = TRUE
    /\ file = AbsentFile
    /\ file0 = file
    /\ InitProcess
    /\ u_in = NoUnitInput
    /\ InitStores
    /\ InitCache

NextDiscovery ==
    \/ DiscChange
    \/ DiscTakeSnapshot
    \/ DiscGetNewEntryPoints

SpecDiscovery == InitDiscovery /\ [][NextDiscovery]_vars

\* ------------------------------------------------------------- stateless operations
\* PluginSpec objects as a caller can construct them, validated or not.
UnitSpecs ==
    {[name |-> n, source |-> src, enabled |-> TRUE, package |-> pk, version |-> v,
      url |-> u, ref |-> r, subdirectory |-> sd, path |-> pa, editable |-> ed] :
        ed \in BOOLEAN, n \in {"a", ""}, src \in {"pypi", "git", "local", "svn", ""},
        pk \in {None, "", "pa"}, v \in {None, ">=1.0"}, u \in {None, "", "u"},
        r \in {None, "main"}, sd \in {None, "sub"}, pa \in {None, "", "p/", "q", IntValue}}

\* VLLM_PLUGIN_CONFIG (unset, empty, or a path) and the files that exist.
ConfigLocs ==
    {[env_path |-> e, env_exists |-> x, default_exists |-> d] :
        e \in {None, "", "/etc/plugins.yaml"}, x \in BOOLEAN, d \in BOOLEAN}
    \ {l \in [env_path : {None, ""}, env_exists : {TRUE}, default_exists : BOOLEAN] : TRUE}

\* The timeout argument of PackageInstaller(...).
Timeouts == {NoTimeout} \cup {[given |-> TRUE, seconds |-> n] : n \in {0, 5, 300}}

unit_rest == <<process_name, config_loc, config_doc, pip, writable, file0, file,
               dists, view, registered, n_passes, mgr_vars, pass_vars, reg_hist,
               store_vars, cache_vars, disc_vars>>

Called(op, out) ==
    /\ u_call' = [op |-> op, out |-> out]
    /\ UNCHANGED <<u_in, unit_rest>>

\* spec.get_install_spec()
UnitGetInstallSpec == Called("get_install_spec", get_install_spec(u_in.spec))

\* spec.validate(): "returned" or "ConfigError"
UnitValidate ==
    Called("validate", IF validate(u_in.spec) THEN "returned" ELSE "ConfigError")

\* spec.plugin_id
UnitPluginId == Called("plugin_id", plugin_id(u_in.spec))

\* PackageInstaller(timeout)._run_pip(args)
UnitRunPip ==
    Called("_run_pip", run_pip_of(u_in.timeout, <<"install", "pa">>, u_in.oc))

\* PackageInstaller().install_from_spec(spec)
UnitInstallFromSpec ==
    Called("install_from_spec", install_from_spec(u_in.spec, u_in.oc))

\* PackageInstaller().install_git(url, ref, subdirectory, editable) called
\* with the fields of the spec.
UnitInstallGit ==
    /\ Truthy(u_in.spec.url)
    /\ Called("install_git",
              install_git(u_in.spec.url, u_in.spec.ref, u_in.spec.subdirectory,
                          u_in.spec.editable, u_in.oc))

\* get_config_path()
UnitGetConfigPath == Called("get_config_path", get_config_path(u_in.loc))

InitUnits ==
    /\ process_name = "MainProcess"
    /\ config_loc = EnvConfigLoc
    /\ config_doc = [kind |-> "yaml", plugins |-> <<>>]
    /\ pip = [k \in 1..MaxPlugins |-> Exit0]
    /\ writable = TRUE
    /\ file = AbsentFile
    /\ file0 = file
    /\ InitProcess
    /\ InitStores
    /\ InitCache
    /\ u_in \in [spec : UnitSpecs, oc : SubprocessOutcomes, timeout : Timeouts,
                 loc : ConfigLocs]
    /\ \/ u_in.timeout = NoTimeout /\ u_in.loc = DefaultLoc
       \/ u_in.spec = NoUnitInput.spec /\ u_in.loc = DefaultLoc
       \/ u_in.spec = NoUnitInput.spec /\ u_in.oc = Exit0 /\ u_in.timeout = NoTimeout

NextUnits ==
    \/ UnitGetInstallSpec
    \/ UnitValidate
    \/ UnitPluginId
    \/ UnitRunPip
    \/ UnitInstallFromSpec
    \/ UnitInstallGit
    \/ UnitGetConfigPath

SpecUnits == InitUnits /\ [][NextUnits]_vars

\* ------------------------------------------------------------- several managers on one directory
\* Two executions of the reconciliation, each with a PluginManager of its own
\* on the same registry directory and the same desired state: two main
\* processes, or two threads of one process that both went past the guard of
\* register(). The store of execution p is s_data[p]; its construction is the
\* construction of a PluginRegistry.
SharedDocs ==
    {[kind |-> "yaml", plugins |-> es] : es \in {<<E_pypi, E_local>>, <<E_git>>}}

SharedEnabled == get_enabled_plugins(from_file(config_doc).plugins)

ViewOf(p) == m_pass[m_pass[p].proc].view

At(p, at) == m_pass[p].at = at

\* What an action of this part leaves alone.
shared_rest ==
    <<process_name, config_loc, config_doc, pip, writable, file0, view, n_passes,
      mgr_vars, pc, idx, results, installed_any, returned, reg_at_start, invalidated,
      reg_hist, cache_vars, disc_vars, u_in, u_call, s_call, s_done, n_ops, s_fresh>>

\* _save of a constructed store: the lock is taken, the store's own data
\* written over the file, and the lock released.
SharedSave(p) ==
    /\ lock_free(lock)
    /\ file' = json_dump(s_data'[p])
    /\ UNCHANGED <<lock, s_pc>>

\* PluginManager(...): the configuration is loaded, then PluginRegistry()
\* begins with the exists() test of _load.
SharedConstruct(p) ==
    /\ At(p, "enter")
    /\ StoreConstruct(p)
    /\ m_pass' = [m_pass EXCEPT ![p].at = "init"]
    /\ UNCHANGED <<dists, log, registered, shared_rest>>

\* The rest of the construction: the read of the file, or the write of the
\* empty registry.
SharedLoad(p) ==
    /\ At(p, "init")
    /\ StoreLoad(p)
    /\ UNCHANGED <<m_pass, dists, log, registered, shared_rest>>

SharedCreate(p) ==
    /\ At(p, "init")
    /\ StoreOpen(p)
    /\ UNCHANGED <<m_pass, dists, log, registered, shared_rest>>

SharedCreated(p) ==
    /\ At(p, "init")
    /\ StoreDump(p)
    /\ UNCHANGED <<m_pass, dists, log, registered, shared_rest>>

\* install_plugins() begins: the snapshot is taken.
SharedBegin(p) ==
    /\ At(p, "init")
    /\ s_pc[p] = "ready"
    /\ m_pass' = [m_pass EXCEPT
                     ![p].at = IF SharedEnabled = <<>> THEN "done" ELSE "loop",
                     ![p].idx = 1,
                     ![p].snap = Snapshot(ViewOf(p)),
                     ![p].start = s_data[p]]
    /\ UNCHANGED <<file, dists, log, registered, lock, s_pc, s_data, shared_rest>>

\* The loop reaches a spec the execution's own registry marks installed.
SharedSkip(p) ==
    /\ At(p, "loop")
    /\ m_pass[p].idx <= Len(SharedEnabled)
    /\ is_installed(s_data[p], plugin_id(SharedEnabled[m_pass[p].idx]))
    /\ m_pass' = [m_pass EXCEPT ![p].idx = loop_next(@)]
    /\ UNCHANGED <<file, dists, log, registered, lock, s_pc, s_data, shared_rest>>

\* The loop reaches any other spec: pending, then installing, each saved.
SharedPending(p) ==
    /\ At(p, "loop")
    /\ m_pass[p].idx <= Len(SharedEnabled)
    /\ ~is_installed(s_data[p], plugin_id(SharedEnabled[m_pass[p].idx]))
    /\ s_data' = [s_data EXCEPT ![p] = mark_pending(@, SharedEnabled[m_pass[p].idx])]
    /\ SharedSave(p)
    /\ m_pass' = [m_pass EXCEPT ![p].at = "pending"]
    /\ UNCHANGED <<dists, log, registered, shared_rest>>

SharedInstalling(p) ==
    /\ At(p, "pending")
    /\ s_data' = [s_data EXCEPT ![p] = mark_installing(@, SharedEnabled[m_pass[p].idx])]
    /\ SharedSave(p)
    /\ m_pass' = [m_pass EXCEPT ![p].at = "install"]
    /\ UNCHANGED <<dists, log, registered, shared_rest>>

\* The installer is invoked and its outcome recorded and saved.
SharedInstall(p) ==
    /\ At(p, "install")
    /\ LET k == m_pass[p].idx
           spec == SharedEnabled[k]
           res == install_from_spec(spec, pip[k])
           env == PipEffect(dists, res.args, pip[k])
           out == record_outcome(s_data[p], spec, res, env)
       IN  /\ dists' = env
           /\ log' = Append(log, [proc |-> p, pos |-> k, spec |-> spec, res |-> res,
                                  dists |-> env])
           /\ s_data' = [s_data EXCEPT ![p] = out.plugins]
           /\ m_pass' = [m_pass EXCEPT ![p].at = "loop",
                                       ![p].idx = loop_next(@),
                                       ![p].any = (@ \/ out.installed)]
    /\ SharedSave(p)
    /\ UNCHANGED <<registered, shared_rest>>

\* After the loop, with a new install: invalidate_cache(), then the attribution.
SharedInvalidate(p) ==
    /\ At(p, "loop")
    /\ m_pass[p].idx > Len(SharedEnabled)
    /\ m_pass[p].any
    /\ m_pass' = [m_pass EXCEPT ![m_pass[p].proc].view = invalidate_cache(@, dists),
                                ![p].at = "diff"]
    /\ UNCHANGED <<file, dists, log, registered, lock, s_pc, s_data, shared_rest>>

SharedAttribute(p) ==
    /\ At(p, "diff")
    /\ s_data' = [s_data EXCEPT
                     ![p] = update_entry_points_from(
                                @, get_new_entry_points(m_pass[p].snap, ViewOf(p)))]
    /\ IF s_data'[p] # s_data[p]
       THEN SharedSave(p)
       ELSE UNCHANGED <<file, lock, s_pc>>
    /\ m_pass' = [m_pass EXCEPT ![p].at = "done"]
    /\ UNCHANGED <<dists, log, registered, shared_rest>>

\* After the loop, without a new install.
SharedReturn(p) ==
    /\ At(p, "loop")
    /\ m_pass[p].idx > Len(SharedEnabled)
    /\ ~m_pass[p].any
    /\ m_pass' = [m_pass EXCEPT ![p].at = "done"]
    /\ UNCHANGED <<file, dists, log, registered, lock, s_pc, s_data, shared_rest>>

\* The desired state and the directory the executions share.
InitSharedWith(passes) ==
    /\ process_name = "MainProcess"
    /\ config_loc = EnvConfigLoc
    /\ config_doc \in SharedDocs
    /\ pip \in [1..MaxPlugins -> {Exit0, Exit1}]
    /\ \A k \in 1..MaxPlugins : ~ReachesPip(config_doc, k) => pip[k] = Exit0
    /\ writable = TRUE
    /\ file \in {AbsentFile, OldFile}
    /\ file0 = file
    /\ InitProcess
    /\ u_in = NoUnitInput
    /\ lock = 0
    /\ s_pc = [p \in StoreProcs |-> "none"]
    /\ s_data = [p \in StoreProcs |-> EmptyMap]
    /\ s_call = [p \in StoreProcs |-> NoCall]
    /\ s_done = [p \in StoreProcs |-> 0]
    /\ n_ops = 0
    /\ s_fresh = [p \in StoreProcs |-> FALSE]
    /\ m_pass = passes
    /\ InitCache

\* Two main processes, each about to construct its PluginManager.
InitShared == InitSharedWith([p \in StoreProcs |-> PassAt(p, "enter")])

NextShared ==
    \/ \E p \in StoreProcs : SharedConstruct(p)
    \/ \E p \in StoreProcs : SharedLoad(p)
    \/ \E p \in StoreProcs : SharedCreate(p)
    \/ \E p \in StoreProcs : SharedCreated(p)
    \/ \E p \in StoreProcs : SharedBegin(p)
    \/ \E p \in StoreProcs : SharedSkip(p)
    \/ \E p \in StoreProcs : SharedPending(p)
    \/ \E p \in StoreProcs : SharedInstalling(p)
    \/ \E p \in StoreProcs : SharedInstall(p)
    \/ \E p \in StoreProcs : SharedInvalidate(p)
    \/ \E p \in StoreProcs : SharedAttribute(p)
    \/ \E p \in StoreProcs : SharedReturn(p)

SpecShared == InitShared /\ [][NextShared]_vars

\* ------------------------------------------------------------- register() in two threads
\* `if _registered: return`: the thread reads the flag.
ThreadCheck(p) ==
    /\ At(p, "start")
    /\ m_pass' = [m_pass EXCEPT ![p].at = IF registered THEN "returned" ELSE "checked"]
    /\ UNCHANGED <<file, dists, log, registered, lock, s_pc, s_data, shared_rest>>

\* `_registered = True`, and the statements up to the PluginManager call: the
\* main-process test and the config lookup.
ThreadSet(p) ==
    /\ At(p, "checked")
    /\ registered' = registered_after(registered)
    /\ m_pass' = [m_pass EXCEPT
                     ![p].at = IF is_main_process(process_name)
                                  /\ get_config_path(config_loc) # None
                               THEN "enter" ELSE "returned"]
    /\ UNCHANGED <<file, dists, log, lock, s_pc, s_data, shared_rest>>

\* Two threads of the main process, each at the first statement of register().
InitThreads == InitSharedWith([p \in StoreProcs |-> PassAt(1, "start")])

NextThreads ==
    \/ \E p \in StoreProcs : ThreadCheck(p)
    \/ \E p \in StoreProcs : ThreadSet(p)
    \/ \E p \in StoreProcs : SharedConstruct(p)
    \/ \E p \in StoreProcs : SharedLoad(p)
    \/ \E p \in StoreProcs : SharedCreate(p)
    \/ \E p \in StoreProcs : SharedCreated(p)
    \/ \E p \in StoreProcs : SharedBegin(p)
    \/ \E p \in StoreProcs : SharedSkip(p)
    \/ \E p \in StoreProcs : SharedPending(p)
    \/ \E p \in StoreProcs : SharedInstalling(p)
    \/ \E p \in StoreProcs : SharedInstall(p)
    \/ \E p \in StoreProcs : SharedInvalidate(p)
    \/ \E p \in StoreProcs : SharedAttribute(p)
    \/ \E p \in StoreProcs : SharedReturn(p)

SpecThreads == InitThreads /\ [][NextThreads]_vars

\* ------------------------------------------------------------- properties
\* install_plugins() has returned its result mapping.
PassDone == pc = "idle" /\ returned = "ok"

AlreadyInstalled == <<TRUE, "Already installed">>

EnabledIds == {plugin_id(Enabled[k]) : k \in 1..Len(Enabled)}

InstalledIn(plugins, id) == id \in DOMAIN plugins /\ plugins[id].status = INSTALLED

Invoked(id) == \E j \in DOMAIN log : plugin_id(log[j].spec) = id

\* The log entry is the last installer invocation of the pass for its pluginId.
LastFor(j) == \A k \in DOMAIN log : plugin_id(log[k].spec) = plugin_id(log[j].spec) => k <= j

\* C1 as stated: the second install_plugins() call with the same desired
\* state and the same environment invokes the installer for no plugin and
\* returns (True, "Already installed") for every enabled spec.
C1_SecondPassInstallsNothing ==
    (PassDone /\ n_passes = 2) =>
        /\ log = <<>>
        /\ \A id \in EnabledIds : results[id] = AlreadyInstalled

\* C1 amended: in the second install_plugins() call the installer is not
\* invoked for any enabled spec whose pluginId the registry marks installed
\* when the call starts, and each of these gets (True, "Already installed");
\* with all of them installed the installer is not invoked at all.
C1_SecondPassSkipsInstalled ==
    (PassDone /\ n_passes = 2) =>
        /\ \A id \in EnabledIds :
              InstalledIn(reg_at_start, id) =>
                  ~Invoked(id) /\ results[id] = AlreadyInstalled
        /\ (\A id \in EnabledIds : InstalledIn(reg_at_start, id)) => log = <<>>

C1_Witness ==
    /\ PassDone /\ n_passes = 2 /\ Len(Enabled) = 2
    /\ \A id \in EnabledIds : InstalledIn(reg_at_start, id)
    /\ Cardinality(EnabledIds) = 2

\* C2: no outcome of the installer (success, returned failure, raised
\* exception) ends the pass early: a pass ends by an exception only when
\* the registry cannot be saved, and a pass that returns has handled every
\* enabled spec, by an installer invocation or by the already-installed
\* skip, and its result mapping has exactly the pluginIds of the enabled specs.
C2_FaultIsolation ==
    /\ returned = "raised" => ~writable
    /\ PassDone =>
          /\ DOMAIN results = EnabledIds
          /\ \A k \in 1..Len(Enabled) :
                \/ \E j \in DOMAIN log : log[j].pos = k
                \/ results[plugin_id(Enabled[k])] = AlreadyInstalled

C2_Witness ==
    /\ PassDone /\ Len(log) = 2
    /\ log[1].res.raised
    /\ ~log[2].res.raised /\ ~log[2].res.success

\* C7: when the loop reaches an enabled spec whose pluginId the registry marks
\* installed, the step it takes records (True, "Already installed") for it,
\* invokes no installer and leaves registry, registry file and environment
\* as they are.
C7_AlreadyInstalledFrame ==
    [][ (/\ pc = "loop"
         /\ idx <= Len(Enabled)
         /\ InstalledIn(registry, plugin_id(Enabled[idx])))
        => (/\ results' = SetKey(results, plugin_id(Enabled[idx]), AlreadyInstalled)
            /\ idx' = idx + 1
            /\ pc' = "loop"
            /\ UNCHANGED <<registry, file, log, dists, installed_any>>) ]_vars

C7_Witness ==
    /\ pc = "loop" /\ idx = 2 /\ log = <<>>
    /\ results = SetKey(EmptyMap, plugin_id(Enabled[1]), AlreadyInstalled)
    /\ InstalledIn(registry, plugin_id(Enabled[1]))
    /\ registry[plugin_id(Enabled[1])].version # None

\* C8 as stated: when install_plugins() has returned, every pluginId whose
\* last installer invocation of the pass returned (False, m) or raised with
\* message m has its record at status failed with error m, and the result
\* entry (False, m).
C8_FailureRecorded ==
    PassDone =>
        \A j \in DOMAIN log :
            (LastFor(j) /\ (log[j].res.raised \/ ~log[j].res.success)) =>
                LET id == plugin_id(log[j].spec)
                    m == log[j].res.message
                IN  /\ id \in DOMAIN registry
                    /\ registry[id].status = FAILED
                    /\ "error" \in DOMAIN registry[id]
                    /\ registry[id].error = m
                    /\ results[id] = <<FALSE, m>>

\* C9: when install_plugins() has returned, every pluginId for which the
\* installer reported success in the pass has its record at status installed,
\* with the version the installer's metadata query gave for the package after
\* the install (None when the distribution is not found), without an error
\* key, and a result entry whose success flag is true.
C9_SuccessRecorded ==
    PassDone =>
        \A j \in DOMAIN log :
            (~log[j].res.raised /\ log[j].res.success) =>
                LET id == plugin_id(log[j].spec)
                    pkg == Or(log[j].spec.package, log[j].spec.name)
                IN  /\ id \in DOMAIN registry
                    /\ registry[id].status = INSTALLED
                    /\ registry[id].version = get_installed_version(log[j].dists, pkg)
                    /\ "error" \notin DOMAIN registry[id]
                    /\ results[id][1] = TRUE

C9_Witness ==
    /\ PassDone
    /\ \E j \in DOMAIN log :
          /\ log[j].res.success
          /\ registry[plugin_id(log[j].spec)].version = "1.2"
          /\ "pa" \in DOMAIN file0.plugins

\* The pluginIds of the enabled entries of the desired-state document.
DocEnabledIds ==
    {plugin_id(p) : p \in {q \in SeqToSet(from_file(config_doc).plugins) : q.enabled}}

DocDisabledIds ==
    {plugin_id(p) : p \in {q \in SeqToSet(from_file(config_doc).plugins) : ~q.enabled}}

\* A record of an id no enabled spec has is the record the file had at the
\* start; only its entry points may differ, and only when an enabled spec's
\* install brought in the distribution that bears the id.
KeptFromStart(plugins, id) ==
    /\ id \in DOMAIN file0.plugins
    /\ \/ plugins[id] = file0.plugins[id]
       \/ /\ id \in DOMAIN dists \ DOMAIN InitialDists
          /\ [plugins[id] EXCEPT !.entry_points = <<>>]
                = [file0.plugins[id] EXCEPT !.entry_points = <<>>]

\* C10: the installer is invoked for enabled specs only, and a record whose
\* pluginId is that of no enabled spec is neither created nor changed, in
\* memory and in the registry file, by anything but the attribution of the
\* entry points of a distribution an enabled spec installed.
C10_DisabledUntouched ==
    /\ \A j \in DOMAIN log : log[j].spec.enabled
    /\ \A id \in DOMAIN registry \ DocEnabledIds : KeptFromStart(registry, id)
    /\ \A id \in DOMAIN file.plugins \ DocEnabledIds : KeptFromStart(file.plugins, id)

C10_Witness ==
    /\ PassDone /\ log # <<>>
    /\ "pa" \in DocDisabledIds \ DocEnabledIds
    /\ "pa" \in DOMAIN registry

\* C4: over any sequence of register() calls the config lookup, the
\* PluginManager construction and install_plugins() each happen at most once,
\* and a call made after an earlier call changes nothing: no lookup, no
\* manager, no pass, no installer invocation, registry and file untouched.
C4_RegisterOnce ==
    [][ /\ n_lookups' <= 1
        /\ n_managers' <= 1
        /\ n_reg_passes' <= 1
        /\ (n_calls >= 1 /\ n_calls' = n_calls + 1) =>
              UNCHANGED <<n_lookups, n_managers, n_reg_passes, pc, log, dists,
                          file, registry, has_manager>> ]_vars

C4_Witness ==
    /\ n_calls = 2
    /\ swallowed
    /\ n_lookups = 1 /\ n_managers = 1 /\ n_reg_passes = 0

\* C5: no exception leaves register(): neither the ConfigError of the
\* document, nor a failure constructing the registry, nor an exception out of
\* install_plugins().
C5_RegisterNeverRaises == ~escaped

C5_Witness ==
    /\ swallowed
    /\ returned = "raised"
    /\ n_reg_passes = 1
    /\ pc = "idle"

\* C6: in a process that is not the main process no step of register() looks
\* up the config, constructs a manager, starts a pass, invokes the installer
\* or changes the registry or its file.
C6_WorkerDoesNothing ==
    [][ process_name # "MainProcess" =>
            UNCHANGED <<n_lookups, n_managers, n_reg_passes, has_manager, pc, log,
                        dists, file, registry>> ]_vars

C6_Witness ==
    /\ process_name = "Worker-1"
    /\ n_calls = 2
    /\ registered
    /\ from_file(config_doc).plugins # <<>>

\* What a store constructed on the initial file holds.
StoreBase == load_registry(file0, TRUE).plugins

\* Both processes held a store before either called, each has made one
\* mutating call, on different pluginIds, and both calls have returned.
TwoCallsDone ==
    /\ \A p \in StoreProcs : s_pc[p] = "ready" /\ s_done[p] = 1 /\ s_call[p].held
    /\ s_call[1].id # s_call[2].id

\* C3: when two processes hold stores on the same directory and each makes one
\* mutating call on a different pluginId, the final registry file equals the
\* result of running the two calls one after the other in some order.
C3_SerialOutcome ==
    TwoCallsDone =>
        /\ file.kind = "json"
        /\ \/ file.plugins = ApplyCall(s_call[2], ApplyCall(s_call[1], StoreBase))
           \/ file.plugins = ApplyCall(s_call[1], ApplyCall(s_call[2], StoreBase))

\* C11: after any sequence of store operations with any arguments, every
\* record has an error field if and only if its status is failed.
C11_ErrorIffFailed ==
    \A p \in StoreProcs : \A id \in DOMAIN s_data[p] :
        ("error" \in DOMAIN s_data[p][id]) <=> (s_data[p][id].status = FAILED)

NoErrorWhenInstalled(plugins) ==
    \A id \in DOMAIN plugins :
        plugins[id].status = INSTALLED => "error" \notin DOMAIN plugins[id]

\* C12: whatever a record's prior status and error, once it is installed,
\* through update_status(id, INSTALLED) or through the success path of
\* install_plugins(), it carries no error; a failed plugin that is later
\* installed successfully has its error cleared.
C12_InstalledHasNoError ==
    /\ NoErrorWhenInstalled(registry)
    /\ file.kind = "json" => NoErrorWhenInstalled(file.plugins)
    /\ \A id \in DOMAIN registry :
           LET r == update_status(registry, id, INSTALLED, None)[id]
           IN  r.status = INSTALLED /\ "error" \notin DOMAIN r

\* A record that an earlier run left failed with an error is installed now.
C12_Witness ==
    /\ PassDone
    /\ file0 = OldFile
    /\ "pa" \in DOMAIN registry
    /\ registry["pa"].status = INSTALLED
    /\ "error" \notin DOMAIN registry["pa"]
    /\ file = json_dump(registry)

\* q is a store constructed after p's calls had returned, and has made none.
FreshAfter(q, p) ==
    /\ q # p
    /\ s_pc[p] = "ready" /\ s_done[p] >= 1
    /\ s_pc[q] = "ready" /\ s_done[q] = 0 /\ s_fresh[q]

\* C13: after every mutating call made through a single store, a fresh store
\* constructed on the same directory holds, for every pluginId, the record the
\* first store holds, and none for a removed id: the file equals the
\* in-memory registry.
C13_FreshStoreAgrees ==
    \A p \in StoreProcs, q \in StoreProcs :
        FreshAfter(q, p) =>
            /\ file = json_dump(s_data[p])
            /\ DOMAIN s_data[q] = DOMAIN s_data[p]
            /\ \A id \in StoreIds :
                   id \in DOMAIN s_data[p] => get_plugin(s_data[q], id) = get_plugin(s_data[p], id)

\* The first store registered one plugin and removed another; the fresh one
\* holds the registered record and not the removed one.
C13_Witness ==
    /\ FreshAfter(2, 1)
    /\ s_done[1] = 2
    /\ s_call[1].op = "remove_plugin"
    /\ s_call[1].id = "pa"
    /\ DOMAIN s_data[1] = {"c"}
    /\ DOMAIN s_data[2] = {"c"}

\* The registry file at the start is absent, does not parse, or parses
\* without the expected structure.
BadFileAtStart == file0.kind # "json"

\* C14: constructing a store on a directory whose registry file is absent, is
\* not parsable, or parses without the expected structure never raises and
\* yields an empty registry, on which later mutating calls work.
C14_BadFileGivesEmptyRegistry ==
    BadFileAtStart =>
        \A p \in StoreProcs :
            /\ s_pc[p] \notin {"ctor_raised", "nomap", "call_raised"}
            /\ (s_pc[p] = "ready" /\ n_ops = 0) =>
                   s_data[p] = EmptyMap /\ (lock = 0 => file = json_dump(EmptyMap))

\* Process p makes, in this step, an update or remove call for an id that its
\* registry does not hold.
CallsWithAbsentId(p) ==
    /\ s_pc[p] = "ready"
    /\ s_done'[p] = s_done[p] + 1
    /\ s_call'[p].op \in {"update_status", "update_entry_points", "remove_plugin"}
    /\ s_call'[p].id \notin DOMAIN s_data[p]

\* C15: update_status, update_entry_points and remove_plugin called with a
\* pluginId absent from the registry raise nothing, create no record and leave
\* every existing record unchanged.
C15_AbsentIdIsNoOp ==
    [][ \A p \in StoreProcs :
            CallsWithAbsentId(p) =>
                /\ s_pc'[p] = "ready"
                /\ s_data'[p] = s_data[p]
                /\ file' = file ]_vars

\* update_status and remove_plugin have been called with an absent id on
\* registries that hold another record; records and file are as before.
C15_Witness ==
    /\ s_pc[1] = "ready" /\ s_pc[2] = "ready"
    /\ s_done[1] = 1 /\ s_done[2] = 1
    /\ s_call[1].op = "update_status" /\ s_call[1].id = "c"
    /\ s_call[2].op = "remove_plugin" /\ s_call[2].id = "c"
    /\ s_data[1] = OldFile.plugins /\ s_data[2] = OldFile.plugins
    /\ file = OldFile

\* The status transitions the state machine documents.
DocumentedTransitions ==
    {<<PENDING, INSTALLING>>, <<INSTALLING, INSTALLED>>, <<INSTALLING, FAILED>>,
     <<FAILED, INSTALLING>>, <<INSTALLED, INSTALLING>>}

\* The status transitions a pass makes.
PassTransitions ==
    {<<FAILED, PENDING>>, <<PENDING, INSTALLING>>, <<INSTALLING, INSTALLED>>,
     <<INSTALLING, FAILED>>}

\* Every status change that this step makes to a record of the manager's
\* registry is in the set.
StatusChangesIn(allowed) ==
    (has_manager /\ has_manager') =>
        \A id \in DOMAIN registry \cap DOMAIN registry' :
            registry'[id].status # registry[id].status =>
                <<registry[id].status, registry'[id].status>> \in allowed

NewlyInstalled == \E j \in DOMAIN log : ~log[j].res.raised /\ log[j].res.success

\* C17: in one install_plugins() pass the discovery cache is invalidated, and
\* the diff and attribution run, if and only if at least one plugin was newly
\* installed in that pass; a pass with no enabled specs, or one in which every
\* enabled plugin was already installed or failed, invalidates nothing.
C17_InvalidateIffInstalled ==
    /\ PassDone => (invalidated <=> NewlyInstalled)
    /\ ~PassDone => (invalidated => pc = "diff" /\ NewlyInstalled)

\* A pass in which one install failed and one succeeded has invalidated the
\* cache.
C17_Witness ==
    /\ PassDone
    /\ invalidated
    /\ Len(log) = 2
    /\ ~log[1].res.success
    /\ log[2].res.success
    /\ view # DOMAIN InitialDists

\* C18: invalidate_cache() never raises, whichever of its sub-steps fails;
\* each failure is contained and the remaining sub-steps still run.
C18_InvalidateNeverRaises ==
    /\ c_pc # "raised"
    /\ c_pc = "done" => Contains(c_ran, "importer") /\ Contains(c_ran, "distributions")

\* The entry points of group g that the distributions v declare.
VisibleIn(v, g) == {ep \in SeqToSet(AllEntryPoints) : ep.group = g /\ ep.dist \in v}

\* C19: get_new_entry_points() called before any take_snapshot() returns a
\* mapping with every known group as key and an empty list for each, whatever
\* entry points are visible.
C19_NoSnapshotEmptyDiff ==
    (d_diff.made /\ ~d_diff.taken) =>
        /\ DOMAIN d_diff.groups = Groups
        /\ \A g \in Groups : d_diff.groups[g] = <<>>

\* The call was made before any snapshot, with entry points of two groups
\* visible.
C19_Witness ==
    /\ d_diff.made
    /\ ~d_diff.taken
    /\ ~snapshot.taken
    /\ VisibleIn(d_diff.view, "vllm.general_plugins") # {}
    /\ VisibleIn(d_diff.view, "vllm.logits_processors") # {}

\* C20: after take_snapshot(), get_new_entry_points() returns for each known
\* group exactly the visible entries of that group whose (name, value) pair
\* was not in the last snapshot of the same group; with nothing changed the
\* result is empty for every group, and entries that disappeared are not
\* reported.
C20_DiffIsNewPairsPerGroup ==
    (d_diff.made /\ d_diff.taken) =>
        /\ DOMAIN d_diff.groups = Groups
        /\ \A g \in Groups :
               LET new == {ep \in VisibleIn(d_diff.view, g) :
                              ~\E old \in VisibleIn(d_diff.snap_view, g) :
                                    old.name = ep.name /\ old.value = ep.value}
               IN  /\ SeqToSet(d_diff.groups[g]) = new
                   /\ Len(d_diff.groups[g]) = Cardinality(new)
        /\ d_diff.view = d_diff.snap_view => \A g \in Groups : d_diff.groups[g] = <<>>

\* Since the snapshot one distribution disappeared, one appeared with a pair
\* the snapshot has in another group, and one with a pair the snapshot has in
\* the same group: only the second is reported.
C20_Witness ==
    /\ d_diff.made
    /\ d_diff.taken
    /\ d_diff.snap_view = {"base", "pa", "c"}
    /\ d_diff.view = {"base", "pa", "x", "y"}
    /\ Len(d_diff.groups["vllm.logits_processors"]) = 1
    /\ d_diff.groups["vllm.logits_processors"][1].dist = "x"
    /\ d_diff.groups["vllm.general_plugins"] = <<>>

\* The stateless operation `op` has been called on the arguments u_in.
Did(op) == u_call.op = op

Present(x) == x # None

\* The reference the documented construction rule gives for a git spec.
GitReference(spec) ==
    ("git+" \o str(spec.url))
    \o (IF Present(spec.ref) THEN "@" \o spec.ref ELSE "")
    \o (IF Present(spec.subdirectory) THEN "#subdirectory=" \o spec.subdirectory ELSE "")

\* C21 as stated: get_install_spec() gives package followed by version when a
\* version is present and else the bare package (pypi), "git+" url, "@ref" only
\* with a ref, "#subdirectory=" only with a subdirectory, in this order (git),
\* the path itself (local), and raises ConfigError naming the source otherwise.
C21_ReferenceFromOwnFields ==
    Did("get_install_spec") =>
        LET spec == u_in.spec
            out == u_call.out
        IN  CASE spec.source = "pypi" ->
                   /\ ~out.err
                   /\ out.ref = IF Present(spec.version)
                                THEN str(spec.package) \o spec.version
                                ELSE spec.package
              [] spec.source = "git" -> ~out.err /\ out.ref = GitReference(spec)
              [] spec.source = "local" ->
                   /\ ~out.err
                   /\ out.ref = IF Present(spec.path) THEN str(spec.path) ELSE None
              [] OTHER -> out.err /\ out.ref = "Unknown source type: " \o spec.source

\* C21: get_install_spec() gives package followed by version when a version is
\* present, else the package, else (package missing or empty) the name (pypi);
\* "git+" url, "@ref" only with a ref, "#subdirectory=" only with a
\* subdirectory, in this order (git); the path as a string, or the empty string
\* when the path is missing (local); it raises ConfigError naming the source
\* for every other source.
C21_ReferenceWithFallbacks ==
    Did("get_install_spec") =>
        LET spec == u_in.spec
            out == u_call.out
        IN  CASE spec.source = "pypi" ->
                   /\ ~out.err
                   /\ out.ref = IF Present(spec.version)
                                THEN str(spec.package) \o spec.version
                                ELSE IF spec.package \notin {None, ""} THEN spec.package
                                ELSE spec.name
              [] spec.source = "git" -> ~out.err /\ out.ref = GitReference(spec)
              [] spec.source = "local" ->
                   /\ ~out.err
                   /\ out.ref = IF Present(spec.path) THEN str(spec.path) ELSE ""
              [] OTHER -> out.err /\ out.ref = "Unknown source type: " \o spec.source

\* A git spec with a url and a subdirectory but no ref has been resolved.
C21_Witness ==
    /\ Did("get_install_spec")
    /\ u_in.spec.source = "git"
    /\ u_in.spec.url = "u" /\ ~Present(u_in.spec.ref) /\ u_in.spec.subdirectory = "sub"
    /\ u_call.out = [err |-> FALSE, ref |-> "git+u#subdirectory=sub"]

MissingOrEmpty(x) == x = None \/ x = ""

\* The field the origin requires.
RequiredField(spec) ==
    CASE spec.source = "pypi" -> spec.package
      [] spec.source = "git" -> spec.url
      [] spec.source = "local" -> spec.path

\* C22: validate() raises ConfigError for a spec with an empty name or with a
\* source that is missing or not one of pypi, git, local; for every other spec
\* it raises exactly when the field its source requires (package, url, path)
\* is missing or empty; and a call of validate() changes nothing but its result.
C22_ValidateIffRequiredFieldMissing ==
    /\ [](Did("validate") =>
            LET spec == u_in.spec IN
            IF MissingOrEmpty(spec.name) \/ spec.source \notin {"pypi", "git", "local"}
            THEN u_call.out = "ConfigError"
            ELSE (u_call.out = "ConfigError") <=> MissingOrEmpty(RequiredField(spec)))
    /\ [][u_call'.op = "validate" => u_in' = u_in /\ unit_rest' = unit_rest]_vars

\* A named local spec without a path was rejected, whatever its other fields.
C22_Witness ==
    /\ Did("validate")
    /\ u_in.spec.name = "a" /\ u_in.spec.source = "local" /\ u_in.spec.path = ""
    /\ u_in.spec.package = "pa" /\ u_in.spec.url = "u"
    /\ u_call.out = "ConfigError"

\* An entry of the document is not a mapping or does not pass validation.
MalformedEntry(e) == ~e.isdict \/ ~validate(MakeSpec(e))

Malformed(doc) ==
    doc.kind = "yaml" /\ \E k \in DOMAIN doc.plugins : MalformedEntry(doc.plugins[k])

\* C23: when an entry of the document is not a mapping or fails validation,
\* enabled or not, from_file() raises ConfigError and gives no plugin list, and
\* register() then invokes the installer for no plugin and leaves the registry
\* file, the environment and the process without a manager or a record.
C23_MalformedDocumentTouchesNothing ==
    Malformed(config_doc) =>
        /\ from_file(config_doc) = [err |-> TRUE, plugins |-> <<>>]
        /\ log = <<>> /\ n_reg_passes = 0
        /\ file = file0 /\ dists = InitialDists
        /\ ~has_manager /\ config = <<>> /\ registry = EmptyMap

\* register() tried to construct the manager from a document whose first
\* entry is fine and whose second, disabled entry lacks its url.
C23_Witness ==
    /\ config_doc.plugins = <<E_pypi, E_off_nourl>>
    /\ n_managers = 1 /\ swallowed
    /\ registered

\* The seconds subprocess.run waits in an installer constructed with u_in.timeout.
SecondsWaited ==
    IF u_in.timeout.given /\ u_in.timeout.seconds > 0 THEN u_in.timeout.seconds ELSE DEFAULT_TIMEOUT

\* A <<success, message>> pair.
IsPair(x) == DOMAIN x = {1, 2} /\ x[1] \in BOOLEAN

\* The message _run_pip gives for a child that ended with outcome oc.
ExitMessages == {run_pip_of(u_in.timeout, <<>>, oc)[2] : oc \in {o \in SubprocessOutcomes : o.kind = "exit" /\ o.rc # 0}}

\* C24: _run_pip() returns a <<success, message>> pair for everything
\* subprocess.run can do: <<TRUE, stdout + stderr>> for exit code 0,
\* <<FALSE, stdout + stderr>> for any other exit code, and for a timeout
\* <<FALSE, message>> where the message gives the seconds waited and is the
\* message of no non-zero exit.
C24_RunPipClassifiesOutcome ==
    Did("_run_pip") =>
        LET oc == u_in.oc
            out == u_call.out
        IN  /\ IsPair(out)
            /\ oc.kind = "exit" /\ oc.rc = 0 => out = <<TRUE, oc.out \o oc.err>>
            /\ oc.kind = "exit" /\ oc.rc # 0 => out = <<FALSE, oc.out \o oc.err>>
            /\ oc.kind = "timeout" =>
                 /\ out = <<FALSE, "Command timed out after "
                                   \o ToString(SecondsWaited) \o " seconds">>
                 /\ out[2] \notin ExitMessages
            /\ oc.kind = "oserror" => ~out[1]

\* An installer constructed with timeout=5 ran pip and the child timed out.
C24_Witness ==
    /\ Did("_run_pip")
    /\ u_in.timeout = [given |-> TRUE, seconds |-> 5]
    /\ u_in.oc = TimedOut
    /\ u_call.out = <<FALSE, "Command timed out after 5 seconds">>

\* The spec's source is unknown, or it is a git spec without a url or a local
\* spec without a path.
Undispatchable(spec) ==
    \/ spec.source \notin {"pypi", "git", "local"}
    \/ spec.source = "git" /\ MissingOrEmpty(spec.url)
    \/ spec.source = "local" /\ MissingOrEmpty(spec.path)

\* What the install operation of the spec's source gives for the child's outcome.
MatchingInstall(spec, oc) ==
    CASE spec.source = "pypi" ->
           install_pypi(IF MissingOrEmpty(spec.package) THEN spec.name ELSE spec.package,
                        spec.version, FALSE, oc)
      [] spec.source = "git" -> install_git(spec.url, spec.ref, spec.subdirectory, FALSE, oc)
      [] spec.source = "local" -> install_local(PathStr(spec.path), spec.editable, oc)

\* install_from_spec() raised InstallerError and no pip command was run.
FailedFast == u_call.out.raised /\ exception_class(u_call.out) = "InstallerError"
              /\ u_call.out.args = <<>>

DefaultConfigPath == "~/.config/vllm/plugins.yaml"

\* VLLM_PLUGIN_CONFIG is set to a path.
OverrideSet == ~MissingOrEmpty(u_in.loc.env_path)

\* C26 as stated: get_config_path() returns the override path when the
\* override is set and its file exists, otherwise the default path when that
\* file exists, and None only when neither file exists.
C26_DefaultIsFallback ==
    Did("get_config_path") =>
        u_call.out = IF OverrideSet /\ u_in.loc.env_exists THEN u_in.loc.env_path
                     ELSE IF u_in.loc.default_exists THEN DefaultConfigPath
                     ELSE None

\* C26: get_config_path() returns the override path when the override is set
\* and its file exists, and None when the override is set and its file does
\* not exist, whether or not the default file exists; only with the override
\* unset or empty it returns the default path when that file exists and None
\* when it does not.
C26_OverrideHidesDefault ==
    Did("get_config_path") =>
        u_call.out = IF OverrideSet
                     THEN (IF u_in.loc.env_exists THEN u_in.loc.env_path ELSE None)
                     ELSE IF u_in.loc.default_exists THEN DefaultConfigPath
                     ELSE None

\* The override names a file that does not exist, the default file exists,
\* and no path was returned.
C26_Witness ==
    /\ Did("get_config_path")
    /\ OverrideSet /\ ~u_in.loc.env_exists /\ u_in.loc.default_exists
    /\ u_call.out = None

\* The two enabled specs of the configuration derive the same pluginId.
Colliding == Len(Enabled) = 2 /\ plugin_id(Enabled[1]) = plugin_id(Enabled[2])

\* The record carries the name, source and package of the spec.
Reflects(rec, spec) ==
    rec.name = spec.name /\ rec.source = spec.source /\ rec.package = spec.package

\* pluginId of every spec of the loaded configuration: the package of a pypi
\* spec, the name of any other.
IdRule ==
    \A k \in DOMAIN config :
        plugin_id(config[k]) = IF config[k].source = "pypi" THEN config[k].package
                               ELSE config[k].name

\* The installer was invoked for the first enabled spec and reported success.
FirstInstalled == log # <<>> /\ log[1].pos = 1 /\ ~log[1].res.raised /\ log[1].res.success

InvokedPositions == [j \in DOMAIN log |-> log[j].pos]

\* C28: within a pass every installer invocation is for an enabled spec of the
\* configuration, the invocations follow the declaration order of the enabled
\* specs, no spec is invoked twice, so that a failed install is not tried
\* again, and one invocation is made at a time.
C28_OnceEachInDeclarationOrder ==
    /\ [](/\ \A j \in DOMAIN log :
               /\ log[j].pos \in 1..Len(Enabled)
               /\ log[j].spec = Enabled[log[j].pos]
          /\ \A j, k \in DOMAIN log : j < k => InvokedPositions[j] < InvokedPositions[k])
    /\ [][log' # log => \/ log' = <<>>
                        \/ /\ Len(log') = Len(log) + 1
                           /\ log' = Append(log, log'[Len(log')])
                           /\ log'[Len(log')].pos = idx]_vars

\* The first of two enabled specs failed, the second was installed after it,
\* and the pass ended with two invocations.
C28_Witness ==
    /\ PassDone
    /\ Len(log) = 2
    /\ ~log[1].res.success /\ log[2].res.success
    /\ InvokedPositions = <<1, 2>>

NoDuplicates(seq) == \A j, k \in DOMAIN seq : seq[j] = seq[k] => j = k

\* C29: at every point of every sequence of passes, no record of the registry
\* and no record of the registry file lists the same "group:name" string
\* twice, also when a pass found two new entry points with the same group and
\* name for one distribution.
C29_EntryPointsDeduplicated ==
    /\ \A id \in DOMAIN registry : NoDuplicates(registry[id].entry_points)
    /\ file.kind = "json" =>
         \A id \in DOMAIN file.plugins : NoDuplicates(file.plugins[id].entry_points)

\* A pass installed pa, the diff reported general_plugins:e1 twice for it,
\* and the record lists the string once.
C29_Witness ==
    /\ PassDone /\ invalidated
    /\ "pa" \in view
    /\ Len(SelectSeq(get_new_entry_points(snapshot, view)["vllm.general_plugins"],
                     LAMBDA ep : ep.dist = "pa" /\ ep.name = "e1")) = 2
    /\ "pa" \in DOMAIN registry
    /\ registry["pa"].entry_points = <<"vllm.general_plugins:e1">>

\* C30: in a pass with an enabled spec the snapshot is taken when the pass
\* begins, before any installer invocation, and it is the one the diff uses;
\* the cache is invalidated only after the loop has passed the last enabled
\* spec, so that no invocation follows it, and the diff is computed in the
\* next step, on the view the invalidation produced.
C30_SnapshotInstallInvalidateDiff ==
    /\ [](log # <<>> => snapshot.taken)
    /\ [][/\ (snapshot' # snapshot /\ has_manager') =>
               (log' = <<>> /\ pc = "idle" /\ snapshot' = Snapshot(view))
          /\ (log' # log /\ log' # <<>>) => (snapshot' = snapshot /\ ~invalidated)
          /\ (invalidated' /\ ~invalidated) =>
               /\ pc = "loop" /\ idx > Len(Enabled) /\ pc' = "diff"
               /\ view' = DOMAIN dists
               /\ UNCHANGED <<log, snapshot, registry>>
          /\ pc = "diff" =>
               /\ invalidated
               /\ registry' = update_entry_points_from(registry,
                                  get_new_entry_points(snapshot, DOMAIN dists))
               /\ UNCHANGED <<log, snapshot, view>>
               /\ pc' = "idle"]_vars

\* The pass installed pa, invalidated the cache, and the diff then attributed
\* to pa an entry point that the snapshot did not hold.
C30_Witness ==
    /\ PassDone /\ invalidated
    /\ Len(log) >= 1
    /\ \A j \in DOMAIN snapshot.groups["vllm.general_plugins"] :
          snapshot.groups["vllm.general_plugins"][j].name # "e1"
    /\ "pa" \in DOMAIN registry
    /\ registry["pa"].entry_points = <<"vllm.general_plugins:e1">>

\* The registry file holds a record of the id at the status.
Persisted(id, status) ==
    file.kind = "json" /\ id \in DOMAIN file.plugins /\ file.plugins[id].status = status

\* C31: in every step that invokes the installer for a spec, the registry file
\* already holds that plugin's record at status installing, and the step
\* before it moved the persisted record from pending to installing; so the
\* file of a pass that stops inside the installer shows installing.
C31_InstallingBeforeInstaller ==
    /\ [](pc = "install" => Persisted(plugin_id(Enabled[idx]), INSTALLING))
    /\ [][/\ (log' # log /\ log' # <<>>) =>
               (pc = "install" /\ Persisted(plugin_id(Enabled[idx]), INSTALLING))
          /\ (pc' = "install" /\ pc # "install") =>
               (pc = "pending" /\ Persisted(plugin_id(Enabled[idx]), PENDING))]_vars

\* The pass is about to invoke the installer for pa, whose earlier install
\* had failed: the file shows pa at installing, without the old error.
C31_Witness ==
    /\ pc = "install" /\ log = <<>>
    /\ file0 = OldFile
    /\ plugin_id(Enabled[idx]) = "pa"
    /\ Persisted("pa", INSTALLING)
    /\ "error" \notin DOMAIN file.plugins["pa"]

\* The two records differ in their entry_points at most.
SameButEntryPoints(r1, r2) ==
    /\ DOMAIN r1 = DOMAIN r2
    /\ \A k \in DOMAIN r1 \ {"entry_points"} : r1[k] = r2[k]

\* C32: the attribution step creates and removes no record, changes nothing
\* of a record but its entry_points, only appends to that list, and every
\* string it appends to the record of an id is the "group:name" of a newly
\* visible entry point owned by the distribution of that name.
C32_AttributionOnlyToOwner ==
    [][pc = "diff" =>
         LET new_eps == get_new_entry_points(snapshot, view) IN
         /\ DOMAIN registry' = DOMAIN registry
         /\ \A id \in DOMAIN registry :
               /\ SameButEntryPoints(registry'[id], registry[id])
               /\ Len(registry'[id].entry_points) >= Len(registry[id].entry_points)
               /\ SubSeq(registry'[id].entry_points, 1, Len(registry[id].entry_points))
                    = registry[id].entry_points
               /\ \A j \in (Len(registry[id].entry_points) + 1)
                             ..Len(registry'[id].entry_points) :
                     \E ep \in SeqToSet(AllEntryPoints) :
                        /\ ep.dist = id
                        /\ Contains(new_eps[ep.group], ep)
                        /\ registry'[id].entry_points[j] = (ep.group \o ":") \o ep.name]_vars

\* The pass installed the git spec (id pa, distribution gd) and the local spec
\* (id c, distribution c): the entry point of c is on c's record, the entry
\* point of gd is on no record and gd has no record.
C32_Witness ==
    /\ PassDone /\ invalidated
    /\ {"gd", "c"} \subseteq view
    /\ DOMAIN registry = {"pa", "c"}
    /\ registry["c"].entry_points = <<"vllm.logits_processors:lp">>
    /\ registry["pa"].entry_points = <<>>
    /\ registry["pa"].status = INSTALLED

\* The last argument of the pip command install_from_spec() ran.
HandedReference == u_call.out.args[Len(u_call.out.args)]

\* C33 as stated: for every spec that passes validate(), the last argument of
\* the pip command install_from_spec() runs is get_install_spec() of the spec.
C33_InstallerUsesResolvedReference ==
    (Did("install_from_spec") /\ validate(u_in.spec)) =>
        /\ ~u_call.out.raised
        /\ HandedReference = get_install_spec(u_in.spec).ref

\* C33: for every pypi and git spec that passes validate(), the last argument
\* of the pip command install_from_spec() runs is get_install_spec() of the
\* spec; for a valid local spec with a string path it is the path as pathlib
\* writes it, which is get_install_spec() of the spec only when the path is
\* written that way already (no trailing slash).
C33_SameReferenceButLocalPath ==
    (Did("install_from_spec") /\ validate(u_in.spec)) =>
        LET spec == u_in.spec IN
        CASE spec.source \in {"pypi", "git"} ->
               /\ ~u_call.out.raised
               /\ HandedReference = get_install_spec(spec).ref
          [] spec.source = "local" /\ spec.path = "q" ->
               /\ ~u_call.out.raised
               /\ HandedReference = "q"
               /\ HandedReference = get_install_spec(spec).ref
          [] spec.source = "local" /\ spec.path = "p/" ->
               /\ ~u_call.out.raised
               /\ HandedReference = "p"
               /\ get_install_spec(spec).ref = "p/"
          [] OTHER -> u_call.out.raised

\* A valid local spec with path "p/" was installed with the reference "p".
C33_Witness ==
    /\ Did("install_from_spec")
    /\ validate(u_in.spec)
    /\ u_in.spec.source = "local" /\ u_in.spec.path = "p/"
    /\ u_call.out.args = <<"install", "-e", "p">>

\* The pip command that was run carries the editable flag.
EditableFlag == Contains(u_call.out.args, "-e")

StatusOf(plugins, id) == IF id \in DOMAIN plugins THEN plugins[id].status ELSE None

FlagMatchesStatus(plugins, id) ==
    /\ (results[id][1] <=> StatusOf(plugins, id) = INSTALLED)
    /\ (~results[id][1] <=> StatusOf(plugins, id) = FAILED)

C35_ResultFlagMatchesStatus ==
    PassDone =>
        /\ DOMAIN results = EnabledIds
        /\ \A id \in DOMAIN results :
              /\ FlagMatchesStatus(registry, id)
              /\ writable => FlagMatchesStatus(load_registry(file, TRUE).plugins, id)

C35_Witness ==
    /\ PassDone /\ Len(log) = 2
    /\ \E id \in DOMAIN results : results[id][1] /\ StatusOf(registry, id) = INSTALLED
    /\ \E id \in DOMAIN results : ~results[id][1] /\ StatusOf(registry, id) = FAILED

\* C36: no step of an install_plugins() pass removes a registry record, in
\* memory or in the file, and no step changes the status, version or error of
\* a record whose id is not the plugin id of an enabled spec.
ErrorOf(r) == IF "error" \in DOMAIN r THEN r.error ELSE None

SameOutcomeFields(r1, r2) ==
    /\ r1.status = r2.status
    /\ r1.version = r2.version
    /\ ErrorOf(r1) = ErrorOf(r2)

KeepsForeignRecords(before, after) ==
    /\ DOMAIN before \subseteq DOMAIN after
    /\ \A id \in DOMAIN before \ EnabledIds : SameOutcomeFields(before[id], after[id])

C36_ForeignRecordsUntouched ==
    [][pc # "idle" =>
          /\ KeepsForeignRecords(registry, registry')
          /\ KeepsForeignRecords(load_registry(file, TRUE).plugins,
                                 load_registry(file', TRUE).plugins)]_vars

C36_Witness ==
    /\ PassDone /\ NewlyInstalled
    /\ "gd" \in DOMAIN reg_at_start /\ "gd" \notin EnabledIds
    /\ registry["gd"].entry_points # reg_at_start["gd"].entry_points
    /\ SameOutcomeFields(registry["gd"], reg_at_start["gd"])
    /\ load_registry(file, TRUE).plugins = registry

\* C37: a store writes registry.json only while it holds the lock, so at most
\* one store is between the open() and the end of json.dump at any time; and
\* a store reads the file only while no store is in the middle of a write.
Writing(p) == s_pc[p] \in {"creating", "saving"}

Reads(p) == s_pc[p] = "load" /\ s_pc'[p] # "load"

C37_LockCoversReadsAndWrites ==
    /\ [](\A p \in StoreProcs : Writing(p) => lock = p)
    /\ [](\A p, q \in StoreProcs : (Writing(p) /\ Writing(q)) => p = q)
    /\ [][\A p \in StoreProcs : Reads(p) => \A q \in StoreProcs : ~Writing(q)]_vars

C37_Witness ==
    \E p, q \in StoreProcs :
        /\ s_pc[p] = "saving" /\ lock = p
        /\ s_pc[q] = "load"
        /\ file = TruncatedFile

\* The registry file holds at least one record.
HoldsRecords(f) == f.kind = "json" /\ f.plugins # EmptyMap

\* Process p, inside PluginRegistry(), opens the file for writing in this
\* step: the _save of _create_empty_registry.
ConstructionWrites(p) == s_pc[p] = "create" /\ s_pc'[p] = "creating"

\* C38: the construction of a store never discards records another process
\* has persisted: whenever a constructing store opens the registry file for
\* writing, the file holds no record.
C38_ConstructionKeepsRecords ==
    [][\A p \in StoreProcs : ConstructionWrites(p) => ~HoldsRecords(file)]_vars

\* The record of id says installed.
RecordedInstalled(plugins, id) == id \in DOMAIN plugins /\ plugins[id].status = INSTALLED

\* Execution p's loop reaches its next spec in this step, and skips it.
Reaches(p) ==
    /\ At(p, "loop") /\ m_pass[p].idx <= Len(SharedEnabled)
    /\ <<m_pass'[p].at, m_pass'[p].idx>> # <<m_pass[p].at, m_pass[p].idx>>

Skips(p) == m_pass'[p].at = "loop" /\ m_pass'[p].idx = m_pass[p].idx + 1

ReachedId(p) == plugin_id(SharedEnabled[m_pass[p].idx])

\* C39 as stated: when a process reaches a spec whose plugin the registry
\* file already records as installed (by the other process), it skips the
\* spec, so the installer is not invoked for it again.
C39_SeesInstallOfOtherProcess ==
    [][\A p \in StoreProcs :
          (Reaches(p) /\ file.kind = "json" /\ RecordedInstalled(file.plugins, ReachedId(p)))
              => Skips(p)]_vars

\* C39: a process skips a spec exactly when the registry it holds in memory,
\* read from the file once when its manager was constructed, marks the plugin
\* installed; so the installer is never invoked by a process for a plugin
\* that was recorded as installed before the process read the file.
C39_SeesInstallRecordedBeforeConstruction ==
    /\ [](\A j \in DOMAIN log :
             ~RecordedInstalled(m_pass[log[j].proc].start, plugin_id(log[j].spec)))
    /\ [][\A p \in StoreProcs :
             Reaches(p) => (Skips(p) <=> RecordedInstalled(s_data[p], ReachedId(p)))]_vars

\* One process installed the plugins on an empty directory; the other read the
\* file afterwards and went through its pass without invoking the installer.
C39_Witness ==
    \E p, q \in StoreProcs :
        /\ p # q /\ file0 = AbsentFile
        /\ At(q, "done")
        /\ log # <<>>
        /\ \A j \in DOMAIN log : log[j].proc = p /\ log[j].res.success
        /\ \A k \in DOMAIN SharedEnabled :
               RecordedInstalled(m_pass[q].start, plugin_id(SharedEnabled[k]))

\* The thread has gone past the guard of register() to the reconciliation.
Reconciling(p) == m_pass[p].at \notin {"none", "start", "checked", "returned"}

\* The thread reads _registered in this step.
ReadsFlag(p) == At(p, "start") /\ m_pass'[p].at # "start"

\* C40 as stated: with two threads in register(), at most one of them goes on
\* to the PluginManager construction and install_plugins().
C40_ReconciledOnceAcrossThreads ==
    \A p, q \in StoreProcs : (Reconciling(p) /\ Reconciling(q)) => p = q

\* C40: a thread returns at the guard exactly when it reads the flag after
\* another call has set it, and the flag is set before any reconciliation
\* begins; so a thread whose read comes after the set of another never
\* reconciles, and each thread reconciles at most once.
C40_ReconciledOnlyIfFlagReadUnset ==
    /\ [](\A p \in StoreProcs : Reconciling(p) => registered)
    /\ [][\A p \in StoreProcs :
             /\ ReadsFlag(p) => (m_pass'[p].at = "returned" <=> registered)
             /\ Reconciling(p) =>
                    (Reconciling(p)' /\ (m_pass'[p].at = "enter" => At(p, "enter")))]_vars

\* One thread has reconciled, the other found the flag set and returned.
C40_Witness ==
    \E p, q \in StoreProcs :
        /\ p # q
        /\ At(p, "done") /\ log # <<>>
        /\ At(q, "returned")
        /\ \A j \in DOMAIN log : log[j].proc = p

====
